---------------------------- MODULE Spec2Model ----------------------------
(***************************************************************************)
(* The concurrent catalog-tree builder of cvmfs-catalog-visualizations:    *)
(* tree_builder.py (CatalogNode, build_lookup, count_nodes,                *)
(* recalculate_tree), async_tree_builder.py (AsyncCatalogTreeBuilder) and  *)
(* the loading of the previous tree in generate.py (main).                 *)
(*                                                                         *)
(* Paths are Python strings, modelled as sequences of one-character        *)
(* strings, so that startswith / slicing / split behave as in the code.    *)
(* Node objects live in a heap `nodes` (a sequence; a node's identity is   *)
(* its index), children lists hold indices.  Sizes are in MiB.             *)
(***************************************************************************)
EXTENDS Integers, Sequences, FiniteSets, TLC

\* ------------------------------------------------------------------ bounds
\* size of the worker pool (max_workers) is drawn from 1..MaxWorkers
MaxWorkers == 2
\* number of external calls (fetch, probe, listing, close) that may raise in one run
MaxFailures == 1

\* the longest path (in characters) the path functions are applied to
MaxPathLen == 6

\* Python's None for the Optional[int] values (max_depth, max_catalogs, and
\* the result of get_object_size)
None == 0 - 1

\* DEFAULT_STOP_THRESHOLD, in MiB
DEFAULT_STOP_THRESHOLD == 2

\* ----------------------------------------------------------- Python strings
Slash == "/"

\* str.startswith
StartsWith(s, p) ==
    /\ Len(p) <= Len(s)
    /\ SubSeq(s, 1, Len(p)) = p

\* index of the first "/" in s, 0 when there is none
RECURSIVE FirstSlash(_, _)
FirstSlash(s, i) ==
    IF i > Len(s) THEN 0
    ELSE IF s[i] = Slash THEN i
    ELSE FirstSlash(s, i + 1)

\* str.split("/")
RECURSIVE Split(_)
Split(s) ==
    LET i == FirstSlash(s, 1)
    IN  IF i = 0 THEN <<s>>
        ELSE <<SubSeq(s, 1, i - 1)>> \o Split(SubSeq(s, i + 1, Len(s)))

\* the path "/" + c1 + "/" + c2 ... of a sequence of one-character components
RECURSIVE PathOf(_)
PathOf(comps) ==
    IF comps = <<>> THEN <<>>
    ELSE <<Slash, Head(comps)>> \o PathOf(Tail(comps))

RootPath == <<Slash>>


\* ------------------------------------------------------------- CatalogNode
\* A CatalogNode object (children holds indices into the heap).
CatalogNode(path, hash, size_bytes, cumulative_cost, depth, is_large, is_root, is_virtual) ==
    [path |-> path, hash |-> hash, size_bytes |-> size_bytes,
     cumulative_cost |-> cumulative_cost, depth |-> depth, children |-> <<>>,
     is_large |-> is_large, is_root |-> is_root, is_virtual |-> is_virtual]

\* CatalogNode.from_dict on the compact format: depth and cumulative_cost
\* default to 0, is_root to False; kids are the heap indices of the children.
FromDict(path, hash, size, kids, is_large, is_virtual) ==
    [CatalogNode(path, hash, size, 0, 0, is_large, FALSE, is_virtual)
        EXCEPT !.children = kids]

Min(S) == CHOOSE x \in S : \A y \in S : x <= y

\* F(v), with v evaluated once before F is applied (a LET definition is
\* evaluated again at each use when TLC evaluates ENABLED)
Strict(v, F(_)) == CHOOSE r \in {F(x) : x \in {v}} : TRUE

\* the bug of never looking for an existing child
FindOrCreateChild_AlwaysCreates(ns, self, full_path, depth) ==
    [nodes |-> Append([ns EXCEPT ![self].children = Append(@, Len(ns) + 1)],
                      CatalogNode(full_path, "", 0, ns[self].cumulative_cost,
                                  depth, FALSE, FALSE, TRUE)),
     node  |-> Len(ns) + 1]

\* CatalogNode.find_or_create_child: the first child at full_path or along
\* it, else a new virtual node appended to self.children.
\* Returns the new heap and the node found or created.
FindOrCreateChild(ns, self, full_path, depth) ==
    LET kids == ns[self].children
        hits == {i \in 1..Len(kids) :
                    \/ ns[kids[i]].path = full_path
                    \/ StartsWith(full_path, ns[kids[i]].path \o <<Slash>>)}
        id   == Len(ns) + 1
        virtual == CatalogNode(full_path, "", 0, ns[self].cumulative_cost,
                               depth, FALSE, FALSE, TRUE)
    IN  IF hits # {}
        THEN [nodes |-> ns, node |-> kids[Min(hits)]]
        ELSE [nodes |-> Append([ns EXCEPT ![self].children = Append(@, id)], virtual),
              node  |-> id]

\* build_lookup: breadth-first walk; the dict is kept as the sequence of the
\* non-virtual nodes in insertion order (a later entry overwrites an earlier
\* one with the same path, see LookupGet).
RECURSIVE BuildLookupLoop(_, _, _)
BuildLookupLoop(ns, queue_nodes, lookup) ==
    IF queue_nodes = <<>> THEN lookup
    ELSE LET current == Head(queue_nodes)
         IN  Strict(<<Tail(queue_nodes) \o ns[current].children,
                      IF ~ns[current].is_virtual THEN Append(lookup, current)
                      ELSE lookup>>,
                    LAMBDA a : BuildLookupLoop(ns, a[1], a[2]))

build_lookup(ns, node) == BuildLookupLoop(ns, <<node>>, <<>>)

\* dict.get(path): the node stored last under path, 0 for None
LookupGet(ns, lookup, path) ==
    LET hits == {i \in 1..Len(lookup) : ns[lookup[i]].path = path}
    IN  IF hits = {} THEN 0
        ELSE lookup[CHOOSE i \in hits : \A j \in hits : j <= i]

\* the bug of counting the virtual nodes too
RECURSIVE CountNodesLoop_CountsVirtual(_, _, _)
CountNodesLoop_CountsVirtual(ns, stack, count) ==
    IF stack = <<>> THEN count
    ELSE LET current == stack[Len(stack)]
         IN  Strict(<<SubSeq(stack, 1, Len(stack) - 1) \o ns[current].children,
                      count + 1>>,
                    LAMBDA a : CountNodesLoop_CountsVirtual(ns, a[1], a[2]))

\* count_nodes: the non-virtual nodes of a subtree, by an explicit stack
RECURSIVE CountNodesLoop(_, _, _)
CountNodesLoop(ns, stack, count) ==
    IF stack = <<>> THEN count
    ELSE LET current == stack[Len(stack)]
         IN  Strict(<<SubSeq(stack, 1, Len(stack) - 1) \o ns[current].children,
                      IF ~ns[current].is_virtual THEN count + 1 ELSE count>>,
                    LAMBDA a : CountNodesLoop(ns, a[1], a[2]))

count_nodes(ns, node) == CountNodesLoop(ns, <<node>>, 0)

\* the bug of adding the parent's cost to the cost the node already holds
RECURSIVE RecalculateLoop_Accumulates(_, _)
RecalculateLoop_Accumulates(ns, stack) ==
    IF stack = <<>> THEN ns
    ELSE LET node   == stack[Len(stack)][1]
             parent == stack[Len(stack)][2]
             ns2 == IF parent = 0
                    THEN [ns EXCEPT ![node].depth = 0,
                                    ![node].cumulative_cost = ns[node].size_bytes]
                    ELSE [ns EXCEPT ![node].depth = ns[parent].depth + 1,
                                    ![node].cumulative_cost =
                                        ns[parent].cumulative_cost + @]
             kids == ns[node].children
         IN  Strict(<<ns2, SubSeq(stack, 1, Len(stack) - 1)
                             \o [i \in 1..Len(kids) |-> <<kids[i], node>>]>>,
                    LAMBDA a : RecalculateLoop_Accumulates(a[1], a[2]))

\* recalculate_tree: top-down by an explicit stack of (node, parent) pairs,
\* parent 0 for None
RECURSIVE RecalculateLoop(_, _)
RecalculateLoop(ns, stack) ==
    IF stack = <<>> THEN ns
    ELSE LET node   == stack[Len(stack)][1]
             parent == stack[Len(stack)][2]
             ns2 == IF parent = 0
                    THEN [ns EXCEPT ![node].depth = 0,
                                    ![node].cumulative_cost = ns[node].size_bytes]
                    ELSE [ns EXCEPT ![node].depth = ns[parent].depth + 1,
                                    ![node].cumulative_cost =
                                        ns[parent].cumulative_cost + ns[node].size_bytes]
             kids == ns[node].children
         IN  Strict(<<ns2, SubSeq(stack, 1, Len(stack) - 1)
                             \o [i \in 1..Len(kids) |-> <<kids[i], node>>]>>,
                    LAMBDA a : RecalculateLoop(a[1], a[2]))

recalculate_tree(ns, root_id) == RecalculateLoop(ns, <<<<root_id, 0>>>>)

\* dict.get(key, default)
Get(data, key, default) == IF key \in DOMAIN data THEN data[key] ELSE default

\* CatalogNode.to_dict: the compact dict of a subtree; path, hash and size
\* always, is_large / is_virtual / children only when true or non-empty;
\* depth, cumulative_cost and is_root are not written
RECURSIVE to_dict(_, _)
to_dict(ns, self) ==
    LET d0 == [path |-> ns[self].path, hash |-> ns[self].hash,
               size |-> ns[self].size_bytes]
        d1 == IF ns[self].is_large THEN d0 @@ [is_large |-> TRUE] ELSE d0
        d2 == IF ns[self].is_virtual THEN d1 @@ [is_virtual |-> TRUE] ELSE d1
        kids == ns[self].children
    IN  IF kids # <<>>
        THEN d2 @@ [children |-> [i \in 1..Len(kids) |-> to_dict(ns, kids[i])]]
        ELSE d2

\* CatalogNode.from_dict: the node objects are allocated on the heap ns,
\* the children (in list order) before their parent.
\* Returns the heap and the node constructed.
RECURSIVE from_dict(_, _)
RECURSIVE FromDictChildren(_, _, _, _)
FromDictChildren(ns, cs, i, kids) ==
    IF i > Len(cs) THEN [nodes |-> ns, kids |-> kids]
    ELSE LET c == from_dict(ns, cs[i])
         IN  FromDictChildren(c.nodes, cs, i + 1, Append(kids, c.node))

from_dict(ns, data) ==
    LET ch == FromDictChildren(ns, Get(data, "children", <<>>), 1, <<>>)
        node == [CatalogNode(data["path"], data["hash"], data["size"],
                             Get(data, "cumulative_cost", 0), Get(data, "depth", 0),
                             Get(data, "is_large", FALSE), Get(data, "is_root", FALSE),
                             Get(data, "is_virtual", FALSE))
                    EXCEPT !.children = ch.kids]
    IN  [nodes |-> Append(ch.nodes, node), node |-> Len(ch.nodes) + 1]

\* ------------------------------------------------------------ Path Resolver
\* _get_path_segments
RECURSIVE SegmentsLoop(_, _)
SegmentsLoop(parts, current) ==
    IF parts = <<>> THEN <<>>
    ELSE LET next == IF current # <<>>
                     THEN current \o <<Slash>> \o Head(parts)
                     ELSE <<Slash>> \o Head(parts)
         IN  Strict(next, LAMBDA n : <<n>> \o SegmentsLoop(Tail(parts), n))

\* the bug of not treating the root as the empty prefix
get_path_segments_RootNotSpecial(parent_path0, child_path) ==
    LET parent_path == parent_path0
        relative0 == SubSeq(child_path, Len(parent_path) + 1, Len(child_path))
        relative  == IF StartsWith(relative0, <<Slash>>) THEN Tail(relative0)
                     ELSE relative0
    IN  IF ~StartsWith(child_path, parent_path) THEN <<child_path>>
        ELSE SegmentsLoop(Split(relative), parent_path)

get_path_segments(parent_path0, child_path) ==
    LET parent_path == IF parent_path0 = RootPath THEN <<>> ELSE parent_path0
        relative0 == SubSeq(child_path, Len(parent_path) + 1, Len(child_path))
        relative  == IF StartsWith(relative0, <<Slash>>) THEN Tail(relative0)
                     ELSE relative0
    IN  IF ~StartsWith(child_path, parent_path) THEN <<child_path>>
        ELSE SegmentsLoop(Split(relative), parent_path)

\* The loop shared by _insert_at_path and _graft_at_path: walk the
\* segments from `current`, creating virtual nodes on the way.
\* Returns the heap and the node the final segment hangs under.
RECURSIVE WalkSegments(_, _, _, _)
WalkSegments(ns, current, segments, i) ==
    IF i >= Len(segments) THEN [nodes |-> ns, node |-> current]
    ELSE Strict(FindOrCreateChild(ns, current, segments[i], ns[current].depth + 1),
                LAMBDA r : WalkSegments(r.nodes, r.node, segments, i + 1))

\* the bug of turning a virtual node at the catalog's path into the real one
insert_at_path_FillsVirtual(ns, root_node, parent_path, catalog_path, catalog_hash, catalog_size, is_large) ==
    Strict(get_path_segments(parent_path, catalog_path), LAMBDA segments :
    Strict(WalkSegments(ns, root_node, segments, 1), LAMBDA w :
        LET cur == w.node
            kids == w.nodes[cur].children
            hits == {i \in 1..Len(kids) : /\ w.nodes[kids[i]].is_virtual
                                          /\ w.nodes[kids[i]].path = catalog_path}
            id  == Len(w.nodes) + 1
            child_node == CatalogNode(catalog_path, catalog_hash, catalog_size,
                              w.nodes[cur].cumulative_cost + catalog_size,
                              w.nodes[cur].depth + 1, is_large, FALSE, FALSE)
        IN  IF hits # {}
            THEN [nodes |-> [w.nodes EXCEPT ![kids[Min(hits)]] =
                                [child_node EXCEPT !.children =
                                    w.nodes[kids[Min(hits)]].children]],
                  node  |-> kids[Min(hits)]]
            ELSE [nodes |-> Append([w.nodes EXCEPT ![cur].children = Append(@, id)],
                                   child_node),
                  node  |-> id]))

\* _insert_at_path: a new real node appended under the resolved position
insert_at_path(ns, root_node, parent_path, catalog_path, catalog_hash, catalog_size, is_large) ==
    Strict(get_path_segments(parent_path, catalog_path), LAMBDA segments :
    Strict(WalkSegments(ns, root_node, segments, 1), LAMBDA w :
        LET cur == w.node
            id  == Len(w.nodes) + 1
            child_node == CatalogNode(catalog_path, catalog_hash, catalog_size,
                              w.nodes[cur].cumulative_cost + catalog_size,
                              w.nodes[cur].depth + 1, is_large, FALSE, FALSE)
        IN  [nodes |-> Append([w.nodes EXCEPT ![cur].children = Append(@, id)],
                              child_node),
             node  |-> id]))

\* _graft_at_path: the cached node object itself (with its children)
\* appended under the resolved position
graft_at_path(ns, root_node, parent_path, cached_node) ==
    Strict(get_path_segments(parent_path, ns[cached_node].path), LAMBDA segments :
    Strict(WalkSegments(ns, root_node, segments, 1), LAMBDA w :
        [nodes |-> [w.nodes EXCEPT ![w.node].children = Append(@, cached_node)],
         node  |-> cached_node]))

\* ------------------------------------------- the repository (external, §6)
\* A catalog of the repository: db_size is catalog.db_size(), ref_size the
\* size its CatalogReference carries (0: unknown), object_size what
\* get_object_size answers for it (None: unavailable), in_cache whether the
\* disk cache held it before the run.
\* listed_by is <<>> for a catalog referenced where the repository's layout
\* puts it (by the nearest catalog above its mount point), else the path of
\* the catalog whose listing carries the reference.
CatListedBy(path, hash, db_size, ref_size, object_size, in_cache, listed_by) ==
    [path |-> path, hash |-> hash, db_size |-> db_size, ref_size |-> ref_size,
     object_size |-> object_size, in_cache |-> in_cache, listed_by |-> listed_by]

Cat(path, hash, db_size, ref_size, object_size, in_cache) ==
    CatListedBy(path, hash, db_size, ref_size, object_size, in_cache, <<>>)

\* path p lies strictly below path q
IsUnder(p, q) ==
    IF q = RootPath THEN p # RootPath ELSE StartsWith(p, q \o <<Slash>>)

\* catalog.list_nested(): the references to the catalogs mounted directly
\* below the catalog at `path` (no other catalog in between), and those the
\* listing is given explicitly
ListNested(cats, path) ==
    {[root_path |-> c.path, hash |-> c.hash, size |-> c.ref_size] :
        c \in {c \in cats :
                 \/ /\ c.listed_by = <<>>
                    /\ IsUnder(c.path, path)
                    /\ ~\E d \in cats : IsUnder(c.path, d.path) /\ IsUnder(d.path, path)
                 \/ c.listed_by = path}}

PA   == PathOf(<<"a">>)
PB   == PathOf(<<"b">>)
PAX  == PathOf(<<"a", "x">>)
PAB  == PathOf(<<"a", "b">>)
PABC == PathOf(<<"a", "b", "c">>)
PABD == PathOf(<<"a", "b", "d">>)
PE   == PathOf(<<"e">>)
PEF  == PathOf(<<"e", "f">>)
PX   == PathOf(<<"x">>)
PY   == PathOf(<<"y">>)
PZ   == PathOf(<<"z">>)
PYW  == PathOf(<<"y", "w">>)
PCD  == PathOf(<<"c", "d">>)
PC   == PathOf(<<"c">>)
PBY  == PathOf(<<"b", "y">>)

\* a stop threshold other than the default, in MiB
OtherStopThreshold == DEFAULT_STOP_THRESHOLD + 3

\* A previous tree as generate.py loads it (from_dict of the compact
\* format): node 1 is its root.
\*   /  ->  /a -> /a/b ;  / -> (virtual) /c -> /c/d
PrevTree(root_hash, a_hash) ==
    << FromDict(RootPath, root_hash, 1, <<2, 4>>, FALSE, FALSE),
       FromDict(PA,  a_hash, 1, <<3>>, FALSE, FALSE),
       FromDict(PAB, "ab", 1, <<>>, FALSE, FALSE),
       FromDict(PC,  "",   0, <<5>>, FALSE, TRUE),
       FromDict(PCD, "cd", 1, <<>>, FALSE, FALSE) >>

\* the repository that tree was built from, with root hash and /a hash given
GraftRepo(root_hash, a_hash) ==
    { Cat(RootPath, root_hash, 1, 1, 1, FALSE), Cat(PA, a_hash, 1, 1, 1, FALSE),
      Cat(PAB, "ab", 1, 1, 1, FALSE), Cat(PCD, "cd", 1, 1, 1, FALSE) }

\* The file --previous-tree names: kind "none" (no option, or no such
\* file), "corrupt" (reading, decompressing, json.loads, raw["tree"] or
\* from_dict raises) or "json": an envelope of stop_threshold, max_depth and
\* tree, the tree given as the heap from_dict builds from it.
TreeFile(kind, stop_threshold, max_depth, tree) ==
    [kind |-> kind, stop_threshold |-> stop_threshold, max_depth |-> max_depth,
     tree |-> tree]

NoFile == TreeFile("none", None, None, <<>>)

\* the bug of validating the stop threshold only
LoadPreviousTree_IgnoresMaxDepth(file, stop_threshold, max_depth) ==
    IF file.kind = "json" /\ file.stop_threshold = stop_threshold
    THEN file.tree
    ELSE <<>>

\* main(), "Load previous tree for incremental caching": the tree handed
\* to the builder, <<>> for None
LoadPreviousTree(file, stop_threshold, max_depth) ==
    IF file.kind = "none" THEN <<>>
    ELSE IF file.kind = "corrupt" THEN <<>>
    ELSE IF file.stop_threshold = stop_threshold /\ file.max_depth = max_depth
    THEN file.tree
    ELSE <<>>

\* a run: the repository, the previous-tree file and the options
ScenarioFromFile(cats, tree_file, max_depth, max_catalogs, ignore_paths) ==
    [cats |-> cats, tree_file |-> tree_file,
     previous |-> LoadPreviousTree(tree_file, DEFAULT_STOP_THRESHOLD, max_depth),
     stop_threshold |-> DEFAULT_STOP_THRESHOLD,
     max_depth |-> max_depth, max_catalogs |-> max_catalogs,
     ignore_paths |-> ignore_paths]

\* a run whose previous tree (if any) was saved with the same options
Scenario(cats, previous, max_depth, max_catalogs, ignore_paths) ==
    ScenarioFromFile(cats,
                     IF previous = <<>> THEN NoFile
                     ELSE TreeFile("json", DEFAULT_STOP_THRESHOLD, max_depth, previous),
                     max_depth, max_catalogs, ignore_paths)

\* The runs explored: repository contents and builder configuration.
Scenarios ==
    << \* 1: four catalogs, a download budget of three
       Scenario({ Cat(RootPath, "r1", 1, 1, 1, TRUE), Cat(PA, "a", 1, 1, 1, FALSE),
                  Cat(PB, "b", 1, 1, 1, TRUE), Cat(PAX, "ax", 1, 1, 1, FALSE) },
                <<>>, None, 3, {}),
       \* 2: references that skip directories, and a depth limit of one
       Scenario({ Cat(RootPath, "r1", 1, 1, 1, FALSE), Cat(PABC, "abc", 1, 1, 1, FALSE),
                  Cat(PABD, "abd", 1, 1, 1, FALSE), Cat(PE, "e", 1, 1, 1, FALSE),
                  Cat(PEF, "ef", 1, 1, 1, FALSE) },
                <<>>, 1, None, {}),
       \* 3: a large catalog, unknown sizes (probe answers, probe has no
       \*    answer and the fetched catalog turns out large), one ignored path
       Scenario({ Cat(RootPath, "r1", 1, 1, 1, FALSE), Cat(PX, "x", 5, 5, 5, FALSE),
                  Cat(PY, "y", 3, 0, None, FALSE), Cat(PYW, "yw", 1, 1, 1, FALSE),
                  Cat(PZ, "z", 1, 0, 1, FALSE), Cat(PE, "e", 1, 1, 1, FALSE) },
                <<>>, None, None, {PE}),
       \* 4: a previous tree, the root changed, every reference unchanged
       Scenario(GraftRepo("r1", "a"), PrevTree("r0", "a"), None, None, {}),
       \* 5: the same with an ignore prefix the previous run did not have
       Scenario(GraftRepo("r1", "a"), PrevTree("r0", "a"), None, None, {PAB}),
       \* 6: a previous tree whose root hash is the current one
       Scenario(GraftRepo("r0", "a"), PrevTree("r0", "a"), None, None, {PAB}),
       \* 7: /a changed, /a/b below it did not
       Scenario(GraftRepo("r1", "a2"), PrevTree("r0", "a"), None, None, {}),
       \* 8: a root above the stop threshold
       Scenario({ Cat(RootPath, "r1", 3, 3, 3, FALSE), Cat(PA, "a", 1, 1, 1, FALSE) },
                <<>>, None, None, {}),
       \* 9: a depth limit of zero
       Scenario({ Cat(RootPath, "r1", 1, 1, 1, FALSE), Cat(PA, "a", 1, 1, 1, FALSE) },
                <<>>, 0, None, {}),
       \* 10: two branches two levels deep and a download budget of three
       Scenario({ Cat(RootPath, "r1", 1, 1, 1, FALSE), Cat(PA, "a", 1, 1, 1, FALSE),
                  Cat(PB, "b", 1, 1, 1, FALSE), Cat(PAX, "ax", 1, 1, 1, FALSE),
                  Cat(PBY, "by", 1, 1, 1, FALSE) },
                <<>>, None, 3, {}),
       \* 11: the same without a budget
       Scenario({ Cat(RootPath, "r1", 1, 1, 1, FALSE), Cat(PA, "a", 1, 1, 1, FALSE),
                  Cat(PB, "b", 1, 1, 1, FALSE), Cat(PAX, "ax", 1, 1, 1, FALSE),
                  Cat(PBY, "by", 1, 1, 1, FALSE) },
                <<>>, None, None, {}),
       \* 12: a root of 1 MiB listing one catalog of 5 MiB
       Scenario({ Cat(RootPath, "r1", 1, 1, 1, FALSE), Cat(PX, "x", 5, 5, 5, FALSE) },
                <<>>, None, None, {}),
       \* 13: a root whose one reference skips a directory
       Scenario({ Cat(RootPath, "r1", 1, 1, 1, FALSE), Cat(PAB, "ab", 1, 1, 1, FALSE) },
                <<>>, None, None, {}),
       \* 14: a previous tree saved with another max_depth
       ScenarioFromFile(GraftRepo("r1", "a"),
                        TreeFile("json", DEFAULT_STOP_THRESHOLD, 1, PrevTree("r0", "a")),
                        None, None, {}),
       \* 15: a previous tree saved with another stop threshold, root unchanged
       ScenarioFromFile(GraftRepo("r0", "a"),
                        TreeFile("json", OtherStopThreshold, None, PrevTree("r0", "a")),
                        None, None, {}),
       \* 16: a previous-tree file that cannot be loaded
       ScenarioFromFile(GraftRepo("r1", "a"),
                        TreeFile("corrupt", None, None, <<>>),
                        None, None, {}),
       \* 17: unknown sizes below a directory: the probe of /a/b answers the
       \*     compressed size 1 for a catalog of 2 MiB, that of /a/x has no
       \*     answer
       Scenario({ Cat(RootPath, "r1", 1, 1, 1, FALSE), Cat(PAB, "ab", 2, 0, 1, FALSE),
                  Cat(PAX, "ax", 1, 0, None, FALSE) },
                <<>>, None, None, {}),
       \* 18: a previous tree, the root changed, and ignore prefixes the
       \*     previous run did not have: /a itself and /c above /c/d
       Scenario(GraftRepo("r1", "a"), PrevTree("r0", "a"), None, None, {PA, PC}),
       \* 19: sizes around the stop threshold: /x above it by its hint, /z
       \*     above it by its probe, /y exactly at it (with /y/w below)
       Scenario({ Cat(RootPath, "r1", 1, 1, 1, FALSE), Cat(PX, "x", 5, 5, 5, FALSE),
                  Cat(PZ, "z", 3, 0, 3, FALSE),
                  Cat(PY, "y", DEFAULT_STOP_THRESHOLD, DEFAULT_STOP_THRESHOLD,
                      DEFAULT_STOP_THRESHOLD, FALSE),
                  Cat(PYW, "yw", 1, 1, 1, FALSE) },
                <<>>, None, None, {}),
       \* 20: a repository of the root catalog alone, 1 MiB
       Scenario({ Cat(RootPath, "r1", 1, 1, 1, FALSE) }, <<>>, None, None, {}),
       \* 21: a depth limit of one and a download budget of two: /c/d lies
       \*     below the limit, /a and /b at it
       Scenario({ Cat(RootPath, "r1", 1, 1, 1, FALSE), Cat(PA, "a", 1, 1, 1, FALSE),
                  Cat(PAX, "ax", 1, 1, 1, FALSE), Cat(PB, "b", 1, 1, 1, FALSE),
                  Cat(PCD, "cd", 1, 1, 1, FALSE) },
                <<>>, 1, 2, {}),
       \* 22: grafts (/a with /a/b, /c/d under a new virtual /c), a new
       \*     catalog /x and an ignored /e in one run
       Scenario(GraftRepo("r1", "a") \cup { Cat(PX, "x", 1, 1, 1, FALSE),
                                            Cat(PE, "e", 1, 1, 1, FALSE) },
                PrevTree("r0", "a"), None, None, {PE})
    >>

\* The runs on a repository whose listings are not those of its layout:
\* the root lists /a/b although /a is a catalog.
OddScenarios ==
    << Scenario({ Cat(RootPath, "r1", 1, 1, 1, FALSE), Cat(PA, "a", 1, 1, 1, FALSE),
                  CatListedBy(PAB, "ab", 1, 1, 1, FALSE, RootPath) },
                <<>>, None, None, {}),
       \* the same with a previous tree in which /a and /a/b are unchanged
       Scenario({ Cat(RootPath, "r1", 1, 1, 1, FALSE), Cat(PA, "a", 1, 1, 1, FALSE),
                  CatListedBy(PAB, "ab", 1, 1, 1, FALSE, RootPath) },
                PrevTree("r0", "a"), None, None, {}) >>

AllScenarios == Scenarios \o OddScenarios

\* ------------------------------------------------------------------- state
VARIABLES
    scn,             \* the run explored: an index into Scenarios
    nodes,           \* the heap of CatalogNode objects
    root_node,       \* build()'s result: the node returned (0: none yet)
    pc,              \* where build() is
    work_queue,      \* asyncio.Queue of (parent_node, nested_refs)
    items_in_flight, \* units enqueued and not finished
    done_event,      \* asyncio.Event
    workers,         \* the worker tasks: position and locals of each
    stats,           \* the statistics counters of the builder
    retrieved,       \* hashes retrieve_catalog was called for
    probed,          \* hashes get_object_size was called for
    failures,        \* external calls that raised so far
    warned,          \* the log: logger.warning records (the reference and the call
                     \* that raised) and logger.exception records (call "worker",
                     \* with the path of the unit's catalog)
    open_catalogs,   \* hashes of the catalogs retrieve_catalog returned and
                     \* close() was not yet completed on
    progress_callback \* the snapshot progress_callback was last invoked with
                     \* (NoProgress: not invoked yet)

vars == <<scn, nodes, root_node, pc, work_queue, items_in_flight, done_event,
          workers, stats, retrieved, probed, failures, warned, open_catalogs,
          progress_callback>>

Cfg == AllScenarios[scn]

\* repository.get_root_hash()
get_root_hash == (CHOOSE c \in Cfg.cats : c.path = RootPath).hash

\* the catalog retrieve_catalog(hash) answers with
CatalogOf(hash) == CHOOSE c \in Cfg.cats : c.hash = hash

\* self._previous_tree (node 1 of the heap when there is one, else None)
previous_tree == IF Cfg.previous = <<>> THEN 0 ELSE 1

\* self._previous_lookup, built once in __init__
previous_lookup ==
    IF Cfg.previous = <<>> THEN <<>> ELSE build_lookup(Cfg.previous, 1)

NoRef == [root_path |-> <<>>, hash |-> "", size |-> 0]

\* a worker task at the top of its loop
NewWorker ==
    [pc |-> "idle", parent_node |-> 0, nested_refs |-> {}, ref |-> NoRef,
     child_node |-> 0, child_refs |-> {}]

ZeroStats ==
    [catalogs_downloaded |-> 0, total_bytes_downloaded |-> 0, catalogs_found |-> 0,
     large_catalogs_found |-> 0, head_requests |-> 0, bytes_skipped |-> 0,
     ignored_count |-> 0, cache_hits |-> 0, bytes_from_cache |-> 0,
     tree_cache_reused |-> 0]

\* _report_progress: the callback is handed the path and eight of the
\* counters as they are at the call
report_progress(path, st) ==
    [path |-> path,
     catalogs_downloaded |-> st.catalogs_downloaded,
     bytes_downloaded |-> st.total_bytes_downloaded,
     catalogs_found |-> st.catalogs_found,
     large_catalogs_found |-> st.large_catalogs_found,
     head_requests |-> st.head_requests,
     bytes_skipped |-> st.bytes_skipped,
     cache_hits |-> st.cache_hits,
     bytes_from_cache |-> st.bytes_from_cache]

\* the callback was not invoked yet: no snapshot has an empty path
NoProgress == report_progress(<<>>, ZeroStats)

\* AsyncCatalogTreeBuilder.__init__
Init ==
    /\ scn \in 1..Len(Scenarios)
    /\ nodes = Cfg.previous
    /\ root_node = 0
    /\ pc = "start"
    /\ work_queue = <<>>
    /\ items_in_flight = 0
    /\ done_event = FALSE
    /\ workers = <<>>
    /\ stats = ZeroStats
    /\ retrieved = {}
    /\ probed = {}
    /\ failures = 0
    /\ warned = {}
    /\ open_catalogs = {}
    /\ progress_callback = NoProgress

\* the bug of a short-circuit test that never matches
RootUnchanged_NeverMatches ==
    /\ previous_tree # 0
    /\ nodes[previous_tree].hash = ""

\* ------------------------------------------------------------------ build()
\* the root short-circuit test: a previous tree whose root hash is the
\* manifest's
RootUnchanged ==
    /\ previous_tree # 0
    /\ nodes[previous_tree].hash = get_root_hash

\* build(), up to the root fetch: the short-circuit returns the previous
\* tree after count_nodes and recalculate_tree
GetRootHash ==
    /\ pc = "start"
    /\ IF RootUnchanged
       THEN /\ stats' = [stats EXCEPT !.tree_cache_reused =
                                         count_nodes(nodes, previous_tree)]
            /\ nodes' = recalculate_tree(nodes, previous_tree)
            /\ root_node' = previous_tree
            /\ pc' = "done"
       ELSE /\ pc' = "rootfetch"
            /\ UNCHANGED <<stats, nodes, root_node>>
    /\ UNCHANGED <<scn, progress_callback,
                   work_queue, items_in_flight, done_event, workers,
                   retrieved, probed, failures, warned, open_catalogs>>

\* the bug of descending below a root above the stop threshold
RootDescends_IgnoresLarge(ns, root_id) ==
    Cfg.max_depth = None \/ Cfg.max_depth > 0

\* whether build() descends below the root it created
RootDescends(ns, root_id) ==
    /\ ~ns[root_id].is_large
    /\ (Cfg.max_depth = None \/ Cfg.max_depth > 0)

\* retrieve_catalog(root_hash) answers: counters, the root node, and either
\* the descent or the final recalculate_tree
RetrieveRoot ==
    /\ pc = "rootfetch"
    /\ LET root_catalog == CatalogOf(get_root_hash)
           root_size == root_catalog.db_size
           is_large  == root_size > Cfg.stop_threshold
           id  == Len(nodes) + 1
           ns  == Append(nodes, CatalogNode(RootPath, root_catalog.hash, root_size,
                                            root_size, 0, is_large, TRUE, FALSE))
       IN  /\ retrieved' = retrieved \cup {get_root_hash}
           /\ open_catalogs' = open_catalogs \cup {root_catalog.hash}
           /\ stats' = [stats EXCEPT
                  !.catalogs_downloaded = 1,
                  !.total_bytes_downloaded = root_size,
                  !.catalogs_found = 1,
                  !.cache_hits = IF root_catalog.in_cache THEN 1 ELSE @,
                  !.bytes_from_cache = IF root_catalog.in_cache THEN root_size ELSE @,
                  !.large_catalogs_found = IF is_large THEN 1 ELSE @]
           /\ progress_callback' = report_progress(RootPath, stats')
           /\ root_node' = id
           /\ IF RootDescends(ns, id)
              THEN nodes' = ns /\ pc' = "rootlist"
              ELSE nodes' = recalculate_tree(ns, id) /\ pc' = "done"
    /\ UNCHANGED <<scn, work_queue, items_in_flight, done_event, workers,
                   probed, failures, warned>>

\* the bug of swallowing the root's fetch error and returning nothing
RetrieveRootFails_Swallowed ==
    /\ pc = "rootfetch"
    /\ failures < MaxFailures
    /\ failures' = failures + 1
    /\ retrieved' = retrieved \cup {get_root_hash}
    /\ pc' = "done"
    /\ UNCHANGED <<scn, progress_callback,
                   nodes, root_node, work_queue, items_in_flight, done_event,
                   workers, stats, probed, warned, open_catalogs>>

\* retrieve_catalog(root_hash) raises: build() raises
RetrieveRootFails ==
    /\ pc = "rootfetch"
    /\ failures < MaxFailures
    /\ failures' = failures + 1
    /\ retrieved' = retrieved \cup {get_root_hash}
    /\ pc' = "failed"
    /\ UNCHANGED <<scn, progress_callback,
                   nodes, root_node, work_queue, items_in_flight, done_event,
                   workers, stats, probed, warned, open_catalogs>>

\* _populate_children_async: root_catalog.list_nested() answers
ListRoot ==
    /\ pc = "rootlist"
    /\ pc' = "rootclose"
    /\ UNCHANGED <<scn, progress_callback,
                   nodes, root_node, work_queue, items_in_flight, done_event,
                   workers, stats, retrieved, probed, failures, warned, open_catalogs>>

\* root_catalog.list_nested() or root_catalog.close() raises: nothing in
\* _populate_children_async or build() catches it
RootListingFails ==
    /\ pc \in {"rootlist", "rootclose"}
    /\ failures < MaxFailures
    /\ failures' = failures + 1
    /\ pc' = "failed"
    /\ \E released \in (IF pc = "rootclose" THEN BOOLEAN ELSE {FALSE}) :
          open_catalogs' = IF released THEN open_catalogs \ {get_root_hash}
                           ELSE open_catalogs
    /\ UNCHANGED <<scn, progress_callback,
                   nodes, root_node, work_queue, items_in_flight, done_event,
                   workers, stats, retrieved, probed, warned>>

\* root_catalog.close() answers: the root unit is put on the queue,
\* items_in_flight = 1, the event is created and max_workers tasks start
StartWorkers ==
    /\ pc = "rootclose"
    /\ open_catalogs' = open_catalogs \ {get_root_hash}
    /\ work_queue' = <<[parent_node |-> root_node,
                        nested_refs |-> ListNested(Cfg.cats, RootPath)]>>
    /\ items_in_flight' = 1
    /\ done_event' = FALSE
    /\ \E max_workers \in 1..MaxWorkers :
          workers' = [i \in 1..max_workers |-> NewWorker]
    /\ pc' = "wait"
    /\ UNCHANGED <<scn, progress_callback,
                   nodes, root_node, stats, retrieved, probed, failures, warned>>

Stopped(w) == workers[w].pc \in {"exited", "cancelled"}

\* done_event.wait() returns; every worker task is cancelled (a task that
\* already returned stays as it is)
CancelWorkers ==
    /\ pc = "wait"
    /\ done_event
    /\ workers' = [w \in DOMAIN workers |->
                      IF workers[w].pc = "exited" THEN workers[w]
                      ELSE [workers[w] EXCEPT !.pc = "cancelled"]]
    /\ pc' = "gather"
    /\ UNCHANGED <<scn, progress_callback,
                   nodes, root_node, work_queue, items_in_flight, done_event,
                   stats, retrieved, probed, failures, warned, open_catalogs>>

\* the bug of returning the assembled tree without the final pass
FinalTree_Unrecalculated(ns, root_id) == ns

\* the tree build() hands back after the workers are gathered
FinalTree(ns, root_id) == recalculate_tree(ns, root_id)

\* asyncio.gather returns; build() recalculates and returns root_node
Return ==
    /\ pc = "gather"
    /\ \A w \in DOMAIN workers : Stopped(w)
    /\ nodes' = FinalTree(nodes, root_node)
    /\ pc' = "done"
    /\ UNCHANGED <<scn, progress_callback,
                   root_node, work_queue, items_in_flight, done_event, workers,
                   stats, retrieved, probed, failures, warned, open_catalogs>>

\* ------------------------------------------------------ _process_single_ref
\* the bug of ignoring only the prefixes themselves, not what lies below
should_ignore_ExactOnly(path) ==
    \E ignore_prefix \in Cfg.ignore_paths : path = ignore_prefix

\* _should_ignore
should_ignore(path) ==
    \E ignore_prefix \in Cfg.ignore_paths :
        path = ignore_prefix \/ StartsWith(path, ignore_prefix \o <<Slash>>)

\* the bug of a graft test that never matches
CachedNode_NeverMatches(ns, ref) == 0

\* the bug of grafting on the path alone, whatever the hash
CachedNode_IgnoresHash(ns, ref) ==
    Strict(previous_lookup, LAMBDA lookup : LookupGet(ns, lookup, ref.root_path))

\* the previous-tree node a reference can be grafted from, 0 when none
\* (lines 369-370)
CachedNode(ns, ref) ==
    Strict(previous_lookup, LAMBDA lookup :
    Strict(LookupGet(ns, lookup, ref.root_path), LAMBDA cached_node :
        IF cached_node # 0 /\ ns[cached_node].hash = ref.hash THEN cached_node ELSE 0))

\* the bug of a depth check that lets the level below the limit through
DepthExceeded_OneTooDeep(ns, child_node) ==
    Cfg.max_depth # None /\ ns[child_node].depth > Cfg.max_depth + 1

\* max depth check after the insertion (line 404)
DepthExceeded(ns, child_node) ==
    Cfg.max_depth # None /\ ns[child_node].depth > Cfg.max_depth

\* download limit check (lines 408-411)
BudgetExhausted(st) ==
    Cfg.max_catalogs # None /\ st.catalogs_downloaded >= Cfg.max_catalogs

\* the bug of flagging a large catalog without counting its bytes as skipped
InsertStep_SkippedNotCounted(ns, st, parent_node, ref, child_size) ==
    LET is_large == child_size > Cfg.stop_threshold
        st1 == IF is_large
               THEN [st EXCEPT !.large_catalogs_found = @ + 1]
               ELSE st
    IN  Strict(insert_at_path(ns, parent_node, ns[parent_node].path, ref.root_path,
                              ref.hash, child_size, is_large), LAMBDA ins :
        [nodes |-> ins.nodes, stats |-> st1, child_node |-> ins.node,
         next |-> IF DepthExceeded(ins.nodes, ins.node) THEN "ref"
                  ELSE IF BudgetExhausted(st1) THEN "ref"
                  ELSE IF ~is_large THEN "fetch"
                  ELSE "ref"])

\* the bug of stopping at the threshold itself
InsertStep_LargeAtThreshold(ns, st, parent_node, ref, child_size) ==
    LET is_large == child_size >= Cfg.stop_threshold
        st1 == IF is_large
               THEN [st EXCEPT !.large_catalogs_found = @ + 1,
                               !.bytes_skipped = @ + child_size]
               ELSE st
    IN  Strict(insert_at_path(ns, parent_node, ns[parent_node].path, ref.root_path,
                              ref.hash, child_size, is_large), LAMBDA ins :
        [nodes |-> ins.nodes, stats |-> st1, child_node |-> ins.node,
         next |-> IF DepthExceeded(ins.nodes, ins.node) THEN "ref"
                  ELSE IF BudgetExhausted(st1) THEN "ref"
                  ELSE IF ~is_large THEN "fetch"
                  ELSE "ref"])

\* lines 385-414: with the size known, flag and count a large catalog,
\* insert the node, and decide whether the catalog is fetched next
InsertStep(ns, st, parent_node, ref, child_size) ==
    LET is_large == child_size > Cfg.stop_threshold
        st1 == IF is_large
               THEN [st EXCEPT !.large_catalogs_found = @ + 1,
                               !.bytes_skipped = @ + child_size]
               ELSE st
    IN  Strict(insert_at_path(ns, parent_node, ns[parent_node].path, ref.root_path,
                              ref.hash, child_size, is_large), LAMBDA ins :
        [nodes |-> ins.nodes, stats |-> st1, child_node |-> ins.node,
         next |-> IF DepthExceeded(ins.nodes, ins.node) THEN "ref"
                  ELSE IF BudgetExhausted(st1) THEN "ref"
                  ELSE IF ~is_large THEN "fetch"
                  ELSE "ref"])

\* the bug of counting a catalog found large after its fetch a second time
CorrectSize_CountsTwice(ns, st, child_node, actual_size) ==
    IF ns[child_node].size_bytes = 0
    THEN LET ns1 == [ns EXCEPT ![child_node].size_bytes = actual_size]
             ns2 == [ns1 EXCEPT ![child_node].cumulative_cost =
                        @ - ns1[child_node].size_bytes + actual_size]
             large == actual_size > Cfg.stop_threshold
         IN  [nodes |-> [ns2 EXCEPT ![child_node].is_large = large],
              stats |-> IF large THEN [st EXCEPT !.large_catalogs_found = @ + 2]
                        ELSE st]
    ELSE [nodes |-> ns, stats |-> st]

\* lines 433-442: the size of a node inserted with size 0 is replaced by
\* the fetched catalog's
CorrectSize(ns, st, child_node, actual_size) ==
    IF ns[child_node].size_bytes = 0
    THEN LET ns1 == [ns EXCEPT ![child_node].size_bytes = actual_size]
             ns2 == [ns1 EXCEPT ![child_node].cumulative_cost =
                        @ - ns1[child_node].size_bytes + actual_size]
             large == actual_size > Cfg.stop_threshold
         IN  [nodes |-> [ns2 EXCEPT ![child_node].is_large = large],
              stats |-> IF large THEN [st EXCEPT !.large_catalogs_found = @ + 1]
                        ELSE st]
    ELSE [nodes |-> ns, stats |-> st]

\* the bug of descending without looking at the depth limit
Descends_IgnoresDepth(ns, child_node) == ~ns[child_node].is_large

\* the bug of descending without looking at the corrected large flag
Descends_IgnoresLarge(ns, child_node) ==
    Cfg.max_depth = None \/ ns[child_node].depth < Cfg.max_depth

\* lines 445-447: the fetched catalog is handed back for listing
Descends(ns, child_node) ==
    /\ ~ns[child_node].is_large
    /\ (Cfg.max_depth = None \/ ns[child_node].depth < Cfg.max_depth)

\* lines 421-450: after retrieve_catalog answered
FetchStep(ns, st, child_node, ref) ==
    LET child_catalog == CatalogOf(ref.hash)
        catalog_size == child_catalog.db_size
        st1 == [st EXCEPT
                  !.catalogs_downloaded = @ + 1,
                  !.total_bytes_downloaded = @ + catalog_size,
                  !.cache_hits = IF child_catalog.in_cache THEN @ + 1 ELSE @,
                  !.bytes_from_cache = IF child_catalog.in_cache
                                       THEN @ + catalog_size ELSE @]
        c == CorrectSize(ns, st1, child_node, catalog_size)
    IN  [nodes |-> c.nodes, stats |-> c.stats,
         reported |-> report_progress(ref.root_path, st1),
         next |-> IF Descends(c.nodes, child_node) THEN "list" ELSE "ref"]

\* --------------------------------------------------------------- worker()
Running == pc \in {"wait"}

\* work_queue.get() answers within the timeout
Dequeue(w) ==
    /\ Running
    /\ workers[w].pc = "idle"
    /\ work_queue # <<>>
    /\ workers' = [workers EXCEPT ![w].pc = "ref",
                                  ![w].parent_node = Head(work_queue).parent_node,
                                  ![w].nested_refs = Head(work_queue).nested_refs]
    /\ work_queue' = Tail(work_queue)
    /\ UNCHANGED <<scn, progress_callback,
                   nodes, root_node, pc, items_in_flight, done_event, stats,
                   retrieved, probed, failures, warned, open_catalogs>>

\* asyncio.TimeoutError on an empty queue: the worker returns when nothing
\* is in flight, else polls again
Timeout(w) ==
    /\ Running
    /\ workers[w].pc = "idle"
    /\ work_queue = <<>>
    /\ workers' = [workers EXCEPT ![w].pc =
                      IF items_in_flight = 0 THEN "exited" ELSE "idle"]
    /\ UNCHANGED <<scn, progress_callback,
                   nodes, root_node, pc, work_queue, items_in_flight,
                   done_event, stats, retrieved, probed, failures, warned, open_catalogs>>

\* the bug of counting a grafted subtree as one catalog found
StartRef_GraftCountsOne(w) ==
    /\ Running
    /\ workers[w].pc = "ref"
    /\ \E ref \in workers[w].nested_refs :
       \E wk \in {[workers[w] EXCEPT !.nested_refs = @ \ {ref}, !.ref = ref,
                                     !.child_node = 0, !.child_refs = {}]} :
       \E cached_node \in {CachedNode(nodes, ref)} :
          IF should_ignore(ref.root_path)
          THEN /\ stats' = [stats EXCEPT !.ignored_count = @ + 1]
               /\ workers' = [workers EXCEPT ![w] = wk]
               /\ UNCHANGED nodes
          ELSE IF cached_node # 0
          THEN \E reused \in {count_nodes(nodes, cached_node)} :
               \E g \in {graft_at_path(nodes, wk.parent_node,
                                       nodes[wk.parent_node].path, cached_node)} :
                   /\ stats' = [stats EXCEPT !.tree_cache_reused = @ + reused,
                                             !.catalogs_found = @ + 1]
                   /\ nodes' = g.nodes
                   /\ workers' = [workers EXCEPT ![w] =
                                     [wk EXCEPT !.child_node = g.node]]
          ELSE IF ref.size > 0
          THEN \E r \in {InsertStep(nodes, [stats EXCEPT !.catalogs_found = @ + 1],
                                    wk.parent_node, ref, ref.size)} :
                   /\ stats' = r.stats
                   /\ nodes' = r.nodes
                   /\ workers' = [workers EXCEPT ![w] =
                                     [wk EXCEPT !.child_node = r.child_node,
                                                !.pc = r.next]]
          ELSE /\ stats' = [stats EXCEPT !.catalogs_found = @ + 1,
                                         !.head_requests = @ + 1]
               /\ workers' = [workers EXCEPT ![w] = [wk EXCEPT !.pc = "probe"]]
               /\ UNCHANGED nodes
    /\ UNCHANGED <<scn, progress_callback,
                   root_node, pc, work_queue, items_in_flight, done_event,
                   retrieved, probed, failures, warned, open_catalogs>>

\* the for loop takes the next reference (list_nested fixes no order) and
\* _process_single_ref runs up to its first network call
StartRef(w) ==
    /\ Running
    /\ workers[w].pc = "ref"
    /\ \E ref \in workers[w].nested_refs :
       \E wk \in {[workers[w] EXCEPT !.nested_refs = @ \ {ref}, !.ref = ref,
                                     !.child_node = 0, !.child_refs = {}]} :
       \E cached_node \in {CachedNode(nodes, ref)} :
          IF should_ignore(ref.root_path)
          THEN /\ stats' = [stats EXCEPT !.ignored_count = @ + 1]
               /\ workers' = [workers EXCEPT ![w] = wk]
               /\ UNCHANGED nodes
          ELSE IF cached_node # 0
          THEN \E reused \in {count_nodes(nodes, cached_node)} :
               \E g \in {graft_at_path(nodes, wk.parent_node,
                                       nodes[wk.parent_node].path, cached_node)} :
                   /\ stats' = [stats EXCEPT !.tree_cache_reused = @ + reused,
                                             !.catalogs_found = @ + reused]
                   /\ nodes' = g.nodes
                   /\ workers' = [workers EXCEPT ![w] =
                                     [wk EXCEPT !.child_node = g.node]]
          ELSE IF ref.size > 0
          THEN \E r \in {InsertStep(nodes, [stats EXCEPT !.catalogs_found = @ + 1],
                                    wk.parent_node, ref, ref.size)} :
                   /\ stats' = r.stats
                   /\ nodes' = r.nodes
                   /\ workers' = [workers EXCEPT ![w] =
                                     [wk EXCEPT !.child_node = r.child_node,
                                                !.pc = r.next]]
          ELSE /\ stats' = [stats EXCEPT !.catalogs_found = @ + 1,
                                         !.head_requests = @ + 1]
               /\ workers' = [workers EXCEPT ![w] = [wk EXCEPT !.pc = "probe"]]
               /\ UNCHANGED nodes
    /\ UNCHANGED <<scn, progress_callback,
                   root_node, pc, work_queue, items_in_flight, done_event,
                   retrieved, probed, failures, warned, open_catalogs>>

\* the bug of taking the catalog's own size when the probe has no answer
ProbeAnswers_NoneIsDbSize(w) ==
    /\ Running
    /\ workers[w].pc = "probe"
    /\ LET wk == workers[w]
           compressed_size == CatalogOf(wk.ref.hash).object_size
           child_size == IF compressed_size # None THEN compressed_size
                         ELSE CatalogOf(wk.ref.hash).db_size
       IN  \E r \in {InsertStep(nodes, stats, wk.parent_node, wk.ref, child_size)} :
           /\ stats' = r.stats
           /\ nodes' = r.nodes
           /\ workers' = [workers EXCEPT ![w] =
                             [wk EXCEPT !.child_node = r.child_node, !.pc = r.next]]
    /\ probed' = probed \cup {workers[w].ref.hash}
    /\ UNCHANGED <<scn, progress_callback,
                   root_node, pc, work_queue, items_in_flight, done_event,
                   retrieved, failures, warned, open_catalogs>>

\* get_object_size answers (a size, or None which counts as 0); the node is
\* inserted
ProbeAnswers(w) ==
    /\ Running
    /\ workers[w].pc = "probe"
    /\ LET wk == workers[w]
           compressed_size == CatalogOf(wk.ref.hash).object_size
           child_size == IF compressed_size # None THEN compressed_size ELSE 0
       IN  \E r \in {InsertStep(nodes, stats, wk.parent_node, wk.ref, child_size)} :
           /\ stats' = r.stats
           /\ nodes' = r.nodes
           /\ workers' = [workers EXCEPT ![w] =
                             [wk EXCEPT !.child_node = r.child_node, !.pc = r.next]]
    /\ probed' = probed \cup {workers[w].ref.hash}
    /\ UNCHANGED <<scn, progress_callback,
                   root_node, pc, work_queue, items_in_flight, done_event,
                   retrieved, failures, warned, open_catalogs>>

\* retrieve_catalog answers
FetchAnswers(w) ==
    /\ Running
    /\ workers[w].pc = "fetch"
    /\ LET wk == workers[w]
       IN  \E r \in {FetchStep(nodes, stats, wk.child_node, wk.ref)} :
           /\ stats' = r.stats
           /\ nodes' = r.nodes
           /\ progress_callback' = r.reported
           /\ workers' = [workers EXCEPT ![w].pc = r.next]
    /\ retrieved' = retrieved \cup {workers[w].ref.hash}
    /\ open_catalogs' = open_catalogs \cup {workers[w].ref.hash}
    /\ UNCHANGED <<scn, root_node, pc, work_queue, items_in_flight, done_event,
                   probed, failures, warned>>

\* child_catalog.list_nested() answers
ListAnswers(w) ==
    /\ Running
    /\ workers[w].pc = "list"
    /\ workers' = [workers EXCEPT
          ![w].child_refs = ListNested(Cfg.cats, workers[w].ref.root_path),
          ![w].pc = "close"]
    /\ UNCHANGED <<scn, progress_callback,
                   nodes, root_node, pc, work_queue, items_in_flight,
                   done_event, stats, retrieved, probed, failures, warned, open_catalogs>>

\* the bug of enqueueing a unit without counting it in flight
CloseAnswers_NotCounted(w) ==
    /\ Running
    /\ workers[w].pc = "close"
    /\ open_catalogs' = open_catalogs \ {workers[w].ref.hash}
    /\ workers' = [workers EXCEPT ![w].pc =
                      IF workers[w].child_refs # {} THEN "put" ELSE "ref"]
    /\ UNCHANGED <<scn, progress_callback,
                   nodes, root_node, pc, work_queue, done_event, stats,
                   retrieved, probed, failures, warned, items_in_flight>>

\* the bug of enqueueing the listing without closing the catalog
CloseAnswers_LeavesOpen(w) ==
    /\ Running
    /\ workers[w].pc = "close"
    /\ IF workers[w].child_refs # {}
       THEN /\ items_in_flight' = items_in_flight + 1
            /\ workers' = [workers EXCEPT ![w].pc = "put"]
       ELSE /\ workers' = [workers EXCEPT ![w].pc = "ref"]
            /\ UNCHANGED items_in_flight
    /\ UNCHANGED <<scn, progress_callback,
                   nodes, root_node, pc, work_queue, done_event, stats,
                   retrieved, probed, failures, warned, open_catalogs>>

\* child_catalog.close() answers; a non-empty listing is counted in flight
CloseAnswers(w) ==
    /\ Running
    /\ workers[w].pc = "close"
    /\ open_catalogs' = open_catalogs \ {workers[w].ref.hash}
    /\ IF workers[w].child_refs # {}
       THEN /\ items_in_flight' = items_in_flight + 1
            /\ workers' = [workers EXCEPT ![w].pc = "put"]
       ELSE /\ workers' = [workers EXCEPT ![w].pc = "ref"]
            /\ UNCHANGED items_in_flight
    /\ UNCHANGED <<scn, progress_callback,
                   nodes, root_node, pc, work_queue, done_event, stats,
                   retrieved, probed, failures, warned>>

\* the bug of a queue that holds one unit: a unit put while another waits
\* is dropped (and counted as finished)
Put_DropsWhenBusy(w) ==
    /\ Running
    /\ workers[w].pc = "put"
    /\ IF work_queue = <<>>
       THEN /\ work_queue' = <<[parent_node |-> workers[w].child_node,
                                nested_refs |-> workers[w].child_refs]>>
            /\ UNCHANGED items_in_flight
       ELSE /\ items_in_flight' = items_in_flight - 1
            /\ UNCHANGED work_queue
    /\ workers' = [workers EXCEPT ![w].pc = "ref"]
    /\ UNCHANGED <<scn, progress_callback,
                   nodes, root_node, pc, done_event, stats,
                   retrieved, probed, failures, warned, open_catalogs>>

\* work_queue.put((child_node, child_refs))
Put(w) ==
    /\ Running
    /\ workers[w].pc = "put"
    /\ work_queue' = Append(work_queue, [parent_node |-> workers[w].child_node,
                                         nested_refs |-> workers[w].child_refs])
    /\ workers' = [workers EXCEPT ![w].pc = "ref"]
    /\ UNCHANGED <<scn, progress_callback,
                   nodes, root_node, pc, items_in_flight, done_event, stats,
                   retrieved, probed, failures, warned, open_catalogs>>

\* the bug of an except clause around the whole for loop: the rest of the
\* unit is dropped with the reference that raised
CallFails_SkipsRest(w) ==
    /\ Running
    /\ workers[w].pc \in {"probe", "fetch", "list", "close"}
    /\ failures < MaxFailures
    /\ failures' = failures + 1
    /\ probed' = IF workers[w].pc = "probe"
                 THEN probed \cup {workers[w].ref.hash} ELSE probed
    /\ retrieved' = IF workers[w].pc = "fetch"
                    THEN retrieved \cup {workers[w].ref.hash} ELSE retrieved
    /\ warned' = warned \cup {[root_path |-> workers[w].ref.root_path,
                                call |-> workers[w].pc]}
    /\ workers' = [workers EXCEPT ![w].pc = "ref", ![w].nested_refs = {}]
    /\ \E released \in (IF workers[w].pc = "close" THEN BOOLEAN ELSE {FALSE}) :
          open_catalogs' = IF released THEN open_catalogs \ {workers[w].ref.hash}
                           ELSE open_catalogs
    /\ UNCHANGED <<scn, progress_callback,
                   nodes, root_node, pc, work_queue, items_in_flight,
                   done_event, stats>>

\* the bug of going on to list a catalog whose call raised
CallFails_Descends(w) ==
    /\ Running
    /\ workers[w].pc \in {"probe", "fetch", "list", "close"}
    /\ failures < MaxFailures
    /\ failures' = failures + 1
    /\ probed' = IF workers[w].pc = "probe"
                 THEN probed \cup {workers[w].ref.hash} ELSE probed
    /\ retrieved' = IF workers[w].pc = "fetch"
                    THEN retrieved \cup {workers[w].ref.hash} ELSE retrieved
    /\ warned' = warned \cup {[root_path |-> workers[w].ref.root_path,
                                call |-> workers[w].pc]}
    /\ workers' = [workers EXCEPT ![w].pc =
                      IF workers[w].pc \in {"fetch", "list"} THEN "list" ELSE "ref"]
    /\ \E released \in (IF workers[w].pc = "close" THEN BOOLEAN ELSE {FALSE}) :
          open_catalogs' = IF released THEN open_catalogs \ {workers[w].ref.hash}
                           ELSE open_catalogs
    /\ UNCHANGED <<scn, progress_callback,
                   nodes, root_node, pc, work_queue, items_in_flight,
                   done_event, stats>>

\* get_object_size, retrieve_catalog, list_nested or close raises: the
\* except clause inside the for loop logs it and the loop goes on
CallFails(w) ==
    /\ Running
    /\ workers[w].pc \in {"probe", "fetch", "list", "close"}
    /\ failures < MaxFailures
    /\ failures' = failures + 1
    /\ probed' = IF workers[w].pc = "probe"
                 THEN probed \cup {workers[w].ref.hash} ELSE probed
    /\ retrieved' = IF workers[w].pc = "fetch"
                    THEN retrieved \cup {workers[w].ref.hash} ELSE retrieved
    /\ warned' = warned \cup {[root_path |-> workers[w].ref.root_path,
                                call |-> workers[w].pc]}
    /\ workers' = [workers EXCEPT ![w].pc = "ref"]
    /\ \E released \in (IF workers[w].pc = "close" THEN BOOLEAN ELSE {FALSE}) :
          open_catalogs' = IF released THEN open_catalogs \ {workers[w].ref.hash}
                           ELSE open_catalogs
    /\ UNCHANGED <<scn, progress_callback,
                   nodes, root_node, pc, work_queue, items_in_flight,
                   done_event, stats>>

\* the bug of a unit's end never setting the completion signal
FinishUnit_NeverSignals(w) ==
    /\ Running
    /\ workers[w].pc = "ref"
    /\ workers[w].nested_refs = {}
    /\ items_in_flight' = items_in_flight - 1
    /\ workers' = [workers EXCEPT ![w].pc = "idle"]
    /\ UNCHANGED <<scn, progress_callback,
                   nodes, root_node, pc, work_queue, stats, retrieved, probed,
                   failures, warned, open_catalogs, done_event>>

\* the bug of setting the event at the end of every unit
FinishUnit_SignalsEarly(w) ==
    /\ Running
    /\ workers[w].pc = "ref"
    /\ workers[w].nested_refs = {}
    /\ items_in_flight' = items_in_flight - 1
    /\ done_event' = TRUE
    /\ workers' = [workers EXCEPT ![w].pc = "idle"]
    /\ UNCHANGED <<scn, progress_callback,
                   nodes, root_node, pc, work_queue, stats, retrieved, probed,
                   failures, warned, open_catalogs>>

\* the for loop is over: "Mark this item as done"
FinishUnit(w) ==
    /\ Running
    /\ workers[w].pc = "ref"
    /\ workers[w].nested_refs = {}
    /\ items_in_flight' = items_in_flight - 1
    /\ done_event' = (done_event \/ items_in_flight' = 0)
    /\ workers' = [workers EXCEPT ![w].pc = "idle"]
    /\ UNCHANGED <<scn, progress_callback,
                   nodes, root_node, pc, work_queue, stats, retrieved, probed,
                   failures, warned, open_catalogs>>

\* the bug of a worker handler that logs and goes on without the decrement
UnitFails_NotCounted(w) ==
    /\ Running
    /\ workers[w].pc = "ref"
    /\ failures < MaxFailures
    /\ failures' = failures + 1
    /\ warned' = warned \cup {[root_path |-> nodes[workers[w].parent_node].path,
                                call |-> "worker"]}
    /\ workers' = [workers EXCEPT ![w].pc = "idle", ![w].nested_refs = {}]
    /\ UNCHANGED <<scn, progress_callback,
                   nodes, root_node, pc, work_queue, stats, retrieved, probed,
                   items_in_flight, done_event, open_catalogs>>

\* an exception leaves the for loop outside the per-reference handler (the
\* for statement itself, or the handler's own logging call): the worker's
\* "except Exception" logs it, decrements items_in_flight, sets the event at
\* zero, and the while loop goes on; the rest of the unit is not processed
UnitFails(w) ==
    /\ Running
    /\ workers[w].pc = "ref"
    /\ failures < MaxFailures
    /\ failures' = failures + 1
    /\ warned' = warned \cup {[root_path |-> nodes[workers[w].parent_node].path,
                                call |-> "worker"]}
    /\ items_in_flight' = items_in_flight - 1
    /\ done_event' = (done_event \/ items_in_flight' = 0)
    /\ workers' = [workers EXCEPT ![w].pc = "idle", ![w].nested_refs = {}]
    /\ UNCHANGED <<scn, progress_callback,
                   nodes, root_node, pc, work_queue, stats, retrieved, probed,
                   open_catalogs>>

\* ---------------------------------------------------------- specification
Main ==
    \/ GetRootHash
    \/ RetrieveRoot
    \/ RetrieveRootFails
    \/ ListRoot
    \/ RootListingFails
    \/ StartWorkers
    \/ CancelWorkers
    \/ Return

Worker(w) ==
    \/ Dequeue(w)
    \/ Timeout(w)
    \/ StartRef(w)
    \/ ProbeAnswers(w)
    \/ FetchAnswers(w)
    \/ ListAnswers(w)
    \/ CloseAnswers(w)
    \/ Put(w)
    \/ CallFails(w)
    \/ FinishUnit(w)

Next ==
    \/ GetRootHash
    \/ RetrieveRoot
    \/ RetrieveRootFails
    \/ ListRoot
    \/ RootListingFails
    \/ StartWorkers
    \/ CancelWorkers
    \/ Return
    \/ \E w \in DOMAIN workers : Dequeue(w)
    \/ \E w \in DOMAIN workers : Timeout(w)
    \/ \E w \in DOMAIN workers : StartRef(w)
    \/ \E w \in DOMAIN workers : ProbeAnswers(w)
    \/ \E w \in DOMAIN workers : FetchAnswers(w)
    \/ \E w \in DOMAIN workers : ListAnswers(w)
    \/ \E w \in DOMAIN workers : CloseAnswers(w)
    \/ \E w \in DOMAIN workers : Put(w)
    \/ \E w \in DOMAIN workers : CallFails(w)
    \/ \E w \in DOMAIN workers : FinishUnit(w)

Spec == Init /\ [][Next]_vars

\* the same builder, run also on the repositories of OddScenarios
InitAnyListing ==
    /\ scn \in 1..Len(AllScenarios)
    /\ nodes = Cfg.previous
    /\ root_node = 0
    /\ pc = "start"
    /\ work_queue = <<>>
    /\ items_in_flight = 0
    /\ done_event = FALSE
    /\ workers = <<>>
    /\ stats = ZeroStats
    /\ retrieved = {}
    /\ probed = {}
    /\ failures = 0
    /\ warned = {}
    /\ open_catalogs = {}
    /\ progress_callback = NoProgress

AnyListingSpec == InitAnyListing /\ [][Next]_vars

\* asyncio runs every task that is ready: some step of the main task or
\* of a worker is taken as long as one is possible
FairSpec == Spec /\ WF_vars(Next)

\* the builder in an environment where the worker's loop body can also
\* raise outside the per-reference handler
NextOrUnitFails ==
    \/ GetRootHash
    \/ RetrieveRoot
    \/ RetrieveRootFails
    \/ ListRoot
    \/ RootListingFails
    \/ StartWorkers
    \/ CancelWorkers
    \/ Return
    \/ \E w \in DOMAIN workers : Dequeue(w)
    \/ \E w \in DOMAIN workers : Timeout(w)
    \/ \E w \in DOMAIN workers : StartRef(w)
    \/ \E w \in DOMAIN workers : ProbeAnswers(w)
    \/ \E w \in DOMAIN workers : FetchAnswers(w)
    \/ \E w \in DOMAIN workers : ListAnswers(w)
    \/ \E w \in DOMAIN workers : CloseAnswers(w)
    \/ \E w \in DOMAIN workers : Put(w)
    \/ \E w \in DOMAIN workers : CallFails(w)
    \/ \E w \in DOMAIN workers : UnitFails(w)
    \/ \E w \in DOMAIN workers : FinishUnit(w)

UnitFailureSpec == Init /\ [][NextOrUnitFails]_vars

\* ------------------------------------------------------- reading the tree
\* the nodes reachable from r through children lists
RECURSIVE ReachLoop(_, _, _)
ReachLoop(ns, stack, seen) ==
    IF stack = <<>> THEN seen
    ELSE IF Head(stack) \in seen THEN ReachLoop(ns, Tail(stack), seen)
    ELSE ReachLoop(ns, Tail(stack) \o ns[Head(stack)].children,
                   seen \cup {Head(stack)})

TreeNodes(ns, r) == IF r = 0 THEN {} ELSE ReachLoop(ns, <<r>>, {})

\* the tree build() is assembling or has returned
Tree == TreeNodes(nodes, root_node)

Kids(ns, n) == {ns[n].children[i] : i \in DOMAIN ns[n].children}

Returned == pc = "done"

\* a node object of the previous tree (those are the first in the heap)
IsPrevious(n) == n <= Len(Cfg.previous)

\* -------------------------------------------------------------------- C1
\* C1: in the tree build() returns (normal path and root short-circuit,
\* grafted and virtual nodes included) the root has depth 0 and cumulative
\* cost equal to its size, and every child has its parent's depth plus one
\* and its parent's cumulative cost plus its own size.
C1_CostAndDepth ==
    Returned =>
        /\ nodes[root_node].depth = 0
        /\ nodes[root_node].cumulative_cost = nodes[root_node].size_bytes
        /\ \A n \in Tree : \A c \in Kids(nodes, n) :
              /\ nodes[c].depth = nodes[n].depth + 1
              /\ nodes[c].cumulative_cost =
                    nodes[n].cumulative_cost + nodes[c].size_bytes

\* a returned tree holding a fresh node, a grafted subtree two levels deep
\* and a virtual node
C1_Witness ==
    /\ Returned
    /\ \E n \in Tree : IsPrevious(n) /\ nodes[n].depth = 2 /\ nodes[n].cumulative_cost = 3
    /\ \E n \in Tree : ~IsPrevious(n) /\ nodes[n].is_virtual /\ nodes[n].children # <<>>
    /\ \E n \in Tree : ~IsPrevious(n) /\ ~nodes[n].is_virtual /\ n # root_node

\* -------------------------------------------------------------------- C2
MidUnit(w) == workers[w].pc \in {"ref", "probe", "fetch", "list", "close", "put"}

PoolDone ==
    /\ Returned
    /\ items_in_flight = 0
    /\ done_event
    /\ \A w \in DOMAIN workers : Stopped(w)

\* C2: once the worker pool is started, under fair scheduling build()
\* reaches Done and returns, with the in-flight counter at zero, the
\* completion signal set and every worker stopped, also when fetches,
\* probes, listings or closes fail.
C2_Terminates == (pc = "wait") ~> PoolDone

\* a run that returned after a worker's call failed, with two workers
C2_Witness ==
    /\ PoolDone
    /\ failures > 0
    /\ Len(workers) > 1
    /\ stats.catalogs_downloaded > 1

\* -------------------------------------------------------------------- C3
InFlightCoversWork ==
    /\ items_in_flight >= 0
    /\ items_in_flight >=
          Len(work_queue) + Cardinality({w \in DOMAIN workers : MidUnit(w)})
    /\ done_event => /\ work_queue = <<>>
                     /\ \A w \in DOMAIN workers : ~MidUnit(w)

\* C3: the in-flight counter is never negative and never below the number
\* of queued units plus the units a worker is processing; the completion
\* signal is set only with an empty queue and no worker inside a unit; and
\* nothing is enqueued once the signal is set.
C3_NoEarlyCompletion ==
    /\ []InFlightCoversWork
    /\ [][done_event => (done_event' /\ work_queue' = work_queue)]_vars

\* two workers inside units while a third unit waits on the queue
C3_Witness ==
    /\ items_in_flight >= 2
    /\ work_queue # <<>>
    /\ \E w \in DOMAIN workers : MidUnit(w)

\* -------------------------------------------------------------------- C4
\* C4: with max_catalogs set, the downloaded-catalog counter (root fetch
\* included) never exceeds it, whatever the interleaving of the workers
\* between the budget check and the increment after the fetch.
C4_BudgetRespected ==
    Cfg.max_catalogs # None => stats.catalogs_downloaded <= Cfg.max_catalogs

\* -------------------------------------------------------------------- C5
\* the parent of a node of the tree other than the root
TreeParent(n) == CHOOSE p \in Tree : n \in Kids(nodes, p)

\* the catalog whose listing a node comes from: its nearest ancestor that
\* is not virtual
RECURSIVE ListingParent(_)
ListingParent(n) ==
    IF nodes[TreeParent(n)].is_virtual THEN ListingParent(TreeParent(n))
    ELSE TreeParent(n)

\* C5 as claimed: with max_depth set, the returned tree has no node (real or
\* virtual) deeper than max_depth.
C5_NoNodeBeyondMaxDepth ==
    (Returned /\ Cfg.max_depth # None) =>
        \A n \in Tree : nodes[n].depth <= Cfg.max_depth

\* C5 amended: with max_depth set, no catalog at depth >= max_depth is
\* explored: every node this run created below the root comes from the
\* listing of a catalog of depth < max_depth, and a real node deeper than
\* max_depth is not fetched and has no children.  (A node can itself lie
\* deeper than max_depth when its reference skips directories.)
C5_NoDescentBeyondMaxDepth ==
    (Returned /\ Cfg.max_depth # None) =>
        \A n \in Tree \ {root_node} :
            ~IsPrevious(n) =>
                /\ nodes[ListingParent(n)].depth < Cfg.max_depth
                /\ (~nodes[n].is_virtual /\ nodes[n].depth > Cfg.max_depth) =>
                      /\ nodes[n].children = <<>>
                      /\ nodes[n].hash \notin retrieved

\* a returned tree with a node deeper than max_depth under virtual
\* ancestors, and a fetched catalog at depth max_depth left unexplored
C5_Witness ==
    /\ Returned
    /\ Cfg.max_depth # None
    /\ \E n \in Tree : ~nodes[n].is_virtual /\ nodes[n].depth > Cfg.max_depth
    /\ \E n \in Tree : /\ nodes[n].depth = Cfg.max_depth
                       /\ nodes[n].hash \in retrieved
                       /\ ListNested(Cfg.cats, nodes[n].path) # {}
                       /\ nodes[n].children = <<>>

C7_NoIgnoredPathInTree ==
    Returned => \A n \in Tree : ~should_ignore(nodes[n].path)

\* -------------------------------------------------------------------- C8
\* index of the last "/" of a path
RECURSIVE LastSlash(_, _)
LastSlash(s, i) ==
    IF i = 0 THEN 0 ELSE IF s[i] = Slash THEN i ELSE LastSlash(s, i - 1)

\* the directory a path lies in ("/" for a top-level path)
Dir(path) ==
    IF LastSlash(path, Len(path)) <= 1 THEN RootPath
    ELSE SubSeq(path, 1, LastSlash(path, Len(path)) - 1)

\* C8: virtual insertion is idempotent: the tree never holds two nodes for
\* the path of a virtual node, and every node hangs under the node of its
\* directory, so references sharing unresolved directories share one
\* virtual node per directory and are children of the same node.
C8_VirtualInsertedOnce ==
    /\ \A m \in Tree : \A n \in Tree :
          (nodes[m].is_virtual /\ nodes[m].path = nodes[n].path) => m = n
    /\ \A n \in Tree : \A c \in Kids(nodes, n) :
          nodes[n].path = Dir(nodes[c].path)

\* /a/b/c and /a/b/d both inserted below the one virtual /a/b below the one
\* virtual /a
C8_Witness ==
    /\ Returned
    /\ \E v \in Tree : \E u \in Tree : \E c \in Tree : \E d \in Tree :
          /\ nodes[v].path = PA  /\ nodes[v].is_virtual /\ v \in Kids(nodes, root_node)
          /\ nodes[u].path = PAB /\ nodes[u].is_virtual /\ Kids(nodes, v) = {u}
          /\ nodes[c].path = PABC /\ nodes[d].path = PABD
          /\ Kids(nodes, u) = {c, d}
          /\ Len(nodes[u].children) = 2

\* -------------------------------------------------------------------- C9
\* the previous tree as it was handed to the builder
PrevNodes == TreeNodes(Cfg.previous, previous_tree)

\* path, hash, size and flags of node objects agree
SameFields(a, b) ==
    /\ a.path = b.path
    /\ a.hash = b.hash
    /\ a.size_bytes = b.size_bytes
    /\ a.is_large = b.is_large
    /\ a.is_root = b.is_root
    /\ a.is_virtual = b.is_virtual

\* every reference the root lists is unchanged since the previous tree
AllUnchanged ==
    /\ Cfg.previous # <<>>
    /\ \A ref \in ListNested(Cfg.cats, RootPath) :
          \E m \in PrevNodes : /\ ~Cfg.previous[m].is_virtual
                               /\ Cfg.previous[m].path = ref.root_path
                               /\ Cfg.previous[m].hash = ref.hash

ShortCircuitCase ==
    /\ Cfg.previous # <<>>
    /\ Cfg.previous[1].hash = get_root_hash

\* C10: in the root short-circuit nothing is fetched or probed, no worker
\* is created, the download counters stay 0, and build() returns the
\* previous tree with its structure unchanged, depth and cost recomputed,
\* and the reused counter equal to the number of its non-virtual nodes.
C10_RootShortCircuit ==
    ShortCircuitCase =>
        /\ pc \in {"start", "done"}
        /\ retrieved = {} /\ probed = {}
        /\ workers = <<>> /\ work_queue = <<>>
        /\ stats.catalogs_downloaded = 0 /\ stats.total_bytes_downloaded = 0
        /\ Returned =>
              /\ root_node = 1
              /\ Len(nodes) = Len(Cfg.previous)
              /\ \A n \in DOMAIN nodes :
                    /\ SameFields(nodes[n], Cfg.previous[n])
                    /\ nodes[n].children = Cfg.previous[n].children
              /\ nodes[root_node].depth = 0
              /\ \A n \in Tree : \A c \in Kids(nodes, n) :
                    nodes[c].depth = nodes[n].depth + 1
              /\ stats.tree_cache_reused =
                    Cardinality({m \in PrevNodes : ~Cfg.previous[m].is_virtual})

\* the short-circuit returned a previous tree of several nodes
C10_Witness ==
    /\ ShortCircuitCase
    /\ Returned
    /\ stats.tree_cache_reused = 4
    /\ \E n \in Tree : nodes[n].depth = 2

\* ------------------------------------------------------------------- C11
\* the subtrees at a (heap ns) and at b (heap ms) agree in path, hash, size
\* and the flags compared at every node, and in their children lists, in
\* order
RECURSIVE SameStructure(_, _, _, _, _)
SameStructure(ns, a, ms, b, with_is_root) ==
    /\ ns[a].path = ms[b].path
    /\ ns[a].hash = ms[b].hash
    /\ ns[a].size_bytes = ms[b].size_bytes
    /\ ns[a].is_large = ms[b].is_large
    /\ ns[a].is_virtual = ms[b].is_virtual
    /\ with_is_root => ns[a].is_root = ms[b].is_root
    /\ Len(ns[a].children) = Len(ms[b].children)
    /\ \A i \in 1..Len(ns[a].children) :
          SameStructure(ns, ns[a].children[i], ms, ms[b].children[i], with_is_root)

\* recalculate_tree(from_dict(to_dict(tree))) for the returned tree
RoundTrip ==
    LET r == from_dict(<<>>, to_dict(nodes, root_node))
    IN  [nodes |-> recalculate_tree(r.nodes, r.node), node |-> r.node]

\* C11: the round trip of a returned tree through to_dict, from_dict and
\* recalculate_tree gives back the same path, hash, size, is_large,
\* is_virtual and is_root at every node and the same children in the same
\* order.
C11_RoundTrip ==
    Returned => SameStructure(nodes, root_node, RoundTrip.nodes, RoundTrip.node, TRUE)

\* what does hold: everything but is_root comes back, depth and cumulative
\* cost included (recomputed)
C11_RoundTripButIsRoot ==
    Returned =>
        /\ SameStructure(nodes, root_node, RoundTrip.nodes, RoundTrip.node, FALSE)
        /\ \A n \in TreeNodes(RoundTrip.nodes, RoundTrip.node) :
              /\ ~RoundTrip.nodes[n].is_root
              /\ \E m \in Tree :
                    /\ nodes[m].path = RoundTrip.nodes[n].path
                    /\ nodes[m].depth = RoundTrip.nodes[n].depth
                    /\ nodes[m].cumulative_cost = RoundTrip.nodes[n].cumulative_cost

\* ------------------------------------------------------------------- C12
\* the references whose processing raised in one of the given calls
WarnedPaths(calls) == {w.root_path : w \in {x \in warned : x.call \in calls}}

AnyCall == {"probe", "fetch", "list", "close"}

\* a raise is caught in the worker: build() has not failed, and the
\* reference that raised is the parent of no unit, queued or being processed
RaiseIsCaught ==
    warned # {} =>
        /\ pc # "failed"
        /\ \A i \in 1..Len(work_queue) :
              nodes[work_queue[i].parent_node].path \notin WarnedPaths(AnyCall)
        /\ \A w \in DOMAIN workers :
              workers[w].parent_node # 0 =>
                  nodes[workers[w].parent_node].path \notin WarnedPaths(AnyCall)

\* a catalog this run fetched and listed, no call for it having raised
Explored(n) ==
    /\ ~IsPrevious(n)
    /\ ~nodes[n].is_virtual
    /\ nodes[n].hash \in retrieved
    /\ Descends(nodes, n)
    /\ nodes[n].path \notin WarnedPaths({"fetch", "list", "close"})

\* every reference of every explored catalog was processed: it is ignored,
\* or its probe raised, or its node is in the tree
OthersProcessed ==
    \A n \in Tree : Explored(n) =>
        \A ref \in ListNested(Cfg.cats, nodes[n].path) :
            \/ should_ignore(ref.root_path)
            \/ ref.root_path \in WarnedPaths({"probe"})
            \/ \E m \in Tree : /\ nodes[m].path = ref.root_path
                               /\ nodes[m].hash = ref.hash
                               /\ ~nodes[m].is_virtual

\* C12: a raise while a reference is processed (probe, fetch, listing or
\* close) is caught inside the worker; that reference yields no work unit;
\* the remaining references of its unit and all other units are processed;
\* and build() returns a tree.
C12_BranchFailureIsolated ==
    /\ []RaiseIsCaught
    /\ [](Returned => OthersProcessed)
    /\ (warned # {}) ~> Returned

\* a returned tree after the fetch of a reference raised, with a sibling of
\* that reference fetched and a node two levels down
C12_Witness ==
    /\ Returned
    /\ \E w \in warned : \E m \in Tree :
          /\ w.call = "fetch"
          /\ nodes[m].path # w.root_path
          /\ Dir(nodes[m].path) = Dir(w.root_path)
          /\ nodes[m].hash \in retrieved
          /\ ListNested(Cfg.cats, nodes[m].path) # {}
    /\ \E n \in Tree : nodes[n].depth = 2

\* ------------------------------------------------------------------- C13
\* build() raised because retrieve_catalog(root_hash) did
RootFetchFailed == pc = "failed" /\ root_node = 0

\* C13: when the root fetch raises, build() fails: no node and no worker is
\* created, no counter moves, nothing else is fetched or probed, and
\* nothing happens afterwards.
C13_RootFetchFailureFatal ==
    /\ [][(pc = "rootfetch" /\ failures' # failures) =>
            /\ pc' = "failed"
            /\ UNCHANGED <<nodes, root_node, workers, work_queue, stats, probed>>]_vars
    /\ [][pc # "failed"]_vars
    /\ [](RootFetchFailed =>
            /\ workers = <<>> /\ work_queue = <<>>
            /\ nodes = Cfg.previous
            /\ stats = ZeroStats
            /\ retrieved = {get_root_hash} /\ probed = {})

\* the root fetch raised for a run that had a previous tree to graft from
C13_Witness ==
    /\ RootFetchFailed
    /\ failures = 1
    /\ Cfg.previous # <<>>

\* ------------------------------------------------------------------- C14
\* C14: a listing failure never fails the build, the root's included: the
\* only way build() fails is the root fetch raising.
C14_OnlyRootFetchIsFatal ==
    pc = "failed" => RootFetchFailed

\* ------------------------------------------------------------------- C15
\* the nodes of the tree at a path
NodesAt(path) == {n \in Tree : nodes[n].path = path}

\* C15 as claimed: a reference whose probe or fetch raised is in the
\* returned tree as a node without children.
C15_FailedRefIsLeaf ==
    Returned =>
        \A path \in WarnedPaths({"probe", "fetch"}) :
            \E n \in NodesAt(path) : nodes[n].children = <<>>

\* C15 amended: a reference whose fetch, listing or close raised is in the
\* returned tree as one real node without children; a reference whose size
\* probe raised is not in the tree at all.
C15_FailedRefOutcome ==
    Returned =>
        /\ \A path \in WarnedPaths({"fetch", "list", "close"}) :
              /\ Cardinality(NodesAt(path)) = 1
              /\ \A n \in NodesAt(path) :
                    ~nodes[n].is_virtual /\ nodes[n].children = <<>>
        /\ \A path \in WarnedPaths({"probe"}) : NodesAt(path) = {}

\* a returned tree after the fetch raised for a reference whose catalog
\* has nested catalogs
C15_Witness ==
    /\ Returned
    /\ \E path \in WarnedPaths({"fetch"}) :
          /\ ListNested(Cfg.cats, path) # {}
          /\ NodesAt(path) # {}

\* ------------------------------------------------------------------- C16
\* The build run by one worker that is never interrupted, the references of
\* a listing taken in one fixed order: the tree every other run is compared
\* with.
RECURSIVE RefsInOrder(_)
RefsInOrder(refs) ==
    IF refs = {} THEN <<>>
    ELSE LET r == CHOOSE x \in refs : TRUE
         IN  <<r>> \o RefsInOrder(refs \ {r})

\* _process_single_ref and the listing after it, every call answering
ProcessRef(ns, st, parent_node, ref) ==
    IF should_ignore(ref.root_path)
    THEN [nodes |-> ns, stats |-> [st EXCEPT !.ignored_count = @ + 1], units |-> <<>>]
    ELSE IF CachedNode(ns, ref) # 0
    THEN [nodes |-> graft_at_path(ns, parent_node, ns[parent_node].path,
                                  CachedNode(ns, ref)).nodes,
          stats |-> [st EXCEPT
                       !.tree_cache_reused = @ + count_nodes(ns, CachedNode(ns, ref)),
                       !.catalogs_found = @ + count_nodes(ns, CachedNode(ns, ref))],
          units |-> <<>>]
    ELSE LET compressed_size == CatalogOf(ref.hash).object_size
             child_size == IF ref.size > 0 THEN ref.size
                           ELSE IF compressed_size # None THEN compressed_size
                           ELSE 0
             st1 == [st EXCEPT !.catalogs_found = @ + 1,
                               !.head_requests = IF ref.size > 0 THEN @ ELSE @ + 1]
         IN  Strict(InsertStep(ns, st1, parent_node, ref, child_size), LAMBDA r :
             IF r.next # "fetch"
             THEN [nodes |-> r.nodes, stats |-> r.stats, units |-> <<>>]
             ELSE Strict(FetchStep(r.nodes, r.stats, r.child_node, ref), LAMBDA f :
                  [nodes |-> f.nodes, stats |-> f.stats,
                   units |-> IF f.next = "list" /\ ListNested(Cfg.cats, ref.root_path) # {}
                             THEN <<[parent_node |-> r.child_node,
                                     nested_refs |-> ListNested(Cfg.cats, ref.root_path)]>>
                             ELSE <<>>]))

\* worker(): the references of the unit in hand, then the next unit
RECURSIVE SeqWorker(_, _, _, _, _)
SeqWorker(ns, st, queue, parent_node, refs) ==
    IF refs # <<>>
    THEN Strict(ProcessRef(ns, st, parent_node, Head(refs)), LAMBDA r :
             SeqWorker(r.nodes, r.stats, queue \o r.units, parent_node, Tail(refs)))
    ELSE IF queue = <<>> THEN ns
    ELSE SeqWorker(ns, st, Tail(queue), Head(queue).parent_node,
                   RefsInOrder(Head(queue).nested_refs))

\* build() with that worker
SeqBuild ==
    IF ShortCircuitCase
    THEN [nodes |-> recalculate_tree(Cfg.previous, 1), root |-> 1]
    ELSE LET root_catalog == CatalogOf(get_root_hash)
             id == Len(Cfg.previous) + 1
             ns == Append(Cfg.previous,
                          CatalogNode(RootPath, root_catalog.hash, root_catalog.db_size,
                                      root_catalog.db_size, 0,
                                      root_catalog.db_size > Cfg.stop_threshold,
                                      TRUE, FALSE))
             st == [ZeroStats EXCEPT !.catalogs_downloaded = 1, !.catalogs_found = 1]
         IN  [nodes |-> IF RootDescends(ns, id)
                        THEN recalculate_tree(
                                 SeqWorker(ns, st, <<>>, id,
                                           RefsInOrder(ListNested(Cfg.cats, RootPath))), id)
                        ELSE recalculate_tree(ns, id),
              root |-> id]

\* which nodes a tree has, with their hash, size, depth, cost and flags
Shape(ns, r) ==
    {[path |-> ns[n].path, hash |-> ns[n].hash, size_bytes |-> ns[n].size_bytes,
      depth |-> ns[n].depth, cumulative_cost |-> ns[n].cumulative_cost,
      is_large |-> ns[n].is_large, is_root |-> ns[n].is_root,
      is_virtual |-> ns[n].is_virtual] : n \in TreeNodes(ns, r)}

\* C16 as claimed: with no call failing, whatever the number of workers and
\* their interleaving, the returned tree has the nodes (hash, size, depth,
\* cost, flags) of the uninterrupted one-worker run.
C16_ShapeDeterminism ==
    (Returned /\ warned = {}) =>
        Shape(nodes, root_node) = Shape(SeqBuild.nodes, SeqBuild.root)

\* C16 amended: the same, for the runs without a download budget.
C16_ShapeDeterminismWithoutBudget ==
    (Returned /\ warned = {} /\ Cfg.max_catalogs = None) =>
        Shape(nodes, root_node) = Shape(SeqBuild.nodes, SeqBuild.root)

\* two workers returned a tree with two branches two levels deep, no budget
\* set
C16_Witness ==
    /\ Returned
    /\ warned = {}
    /\ open_catalogs = {}
    /\ Cfg.max_catalogs = None
    /\ Len(workers) = MaxWorkers
    /\ \E m \in Tree : \E n \in Tree :
          /\ nodes[m].depth = 2 /\ nodes[n].depth = 2
          /\ nodes[m].hash \in retrieved /\ nodes[n].hash \in retrieved
          /\ Dir(nodes[m].path) # Dir(nodes[n].path)

\* ------------------------------------------------------------------- C17
\* a root of 1 MiB whose one reference is /x with a size of 5 MiB, a stop
\* threshold of 2 MiB, no previous tree
OneLargeRefCase ==
    /\ Cfg.previous = <<>>
    /\ Cfg.stop_threshold = 2
    /\ CatalogOf(get_root_hash).db_size = 1
    /\ \E ref \in ListNested(Cfg.cats, RootPath) :
          /\ ListNested(Cfg.cats, RootPath) = {ref}
          /\ ref.root_path = PX
          /\ ref.size = 5

\* C17 as claimed: after build() catalogs_found is 1, catalogs_downloaded
\* is 1 and bytes_skipped is 5 MiB.
C17_OneLargeRefCounters ==
    (OneLargeRefCase /\ Returned) =>
        /\ stats.catalogs_found = 1
        /\ stats.catalogs_downloaded = 1
        /\ stats.bytes_skipped = 5

\* C17 amended: catalogs_found is 2 (the root and /x), catalogs_downloaded
\* is 1 (the root only), bytes_skipped is 5 MiB; the root has the one child
\* /x, flagged large, without children, and nothing but the root is fetched.
C17_OneLargeRefFoundTwo ==
    (OneLargeRefCase /\ Returned) =>
        /\ stats.catalogs_found = 2
        /\ stats.catalogs_downloaded = 1
        /\ stats.bytes_skipped = 5
        /\ stats.large_catalogs_found = 1
        /\ retrieved = {get_root_hash} /\ probed = {}
        /\ Len(nodes[root_node].children) = 1
        /\ \A x \in Kids(nodes, root_node) :
              /\ nodes[x].path = PX
              /\ nodes[x].is_large
              /\ nodes[x].size_bytes = 5
              /\ nodes[x].children = <<>>

\* build() returned for that repository
C17_Witness ==
    /\ OneLargeRefCase
    /\ Returned
    /\ workers # <<>>
    /\ Cardinality(Tree) = 2

\* ------------------------------------------------------------------- C18
\* a root whose one reference is /a/b, with no catalog at /a, under the
\* stop threshold, no previous tree
OneSkippingRefCase ==
    /\ Cfg.previous = <<>>
    /\ \A c \in Cfg.cats : c.db_size <= Cfg.stop_threshold /\ c.path # PA
    /\ \E ref \in ListNested(Cfg.cats, RootPath) :
          /\ ListNested(Cfg.cats, RootPath) = {ref}
          /\ ref.root_path = PAB
          /\ ref.size > 0 /\ ref.size <= Cfg.stop_threshold

\* C18: the returned tree is root -> one virtual /a (empty hash, size 0)
\* -> one real /a/b, and count_nodes of the tree is 2; count_nodes of any
\* subtree of any returned tree is the number of its non-virtual nodes.
C18_VirtualNotCounted ==
    Returned =>
        /\ \A n \in Tree :
              count_nodes(nodes, n) =
                  Cardinality({m \in TreeNodes(nodes, n) : ~nodes[m].is_virtual})
        /\ OneSkippingRefCase =>
              /\ count_nodes(nodes, root_node) = 2
              /\ Cardinality(Tree) = 3
              /\ Len(nodes[root_node].children) = 1
              /\ \A v \in Kids(nodes, root_node) :
                    /\ nodes[v].path = PA
                    /\ nodes[v].is_virtual
                    /\ nodes[v].hash = "" /\ nodes[v].size_bytes = 0
                    /\ Len(nodes[v].children) = 1
                    /\ \A c \in Kids(nodes, v) :
                          /\ nodes[c].path = PAB
                          /\ ~nodes[c].is_virtual
                          /\ nodes[c].hash = (CHOOSE k \in Cfg.cats : k.path = PAB).hash
                          /\ nodes[c].children = <<>>

\* build() returned for that repository, /a/b fetched
C18_Witness ==
    /\ OneSkippingRefCase
    /\ Returned
    /\ \E c \in Tree : nodes[c].path = PAB /\ nodes[c].hash \in retrieved
    /\ \E v \in Tree : nodes[v].path = PA /\ nodes[v].is_virtual

\* ------------------------------------------------------------------- C19
\* the previous-tree file is not to be used: absent or unreadable, or
\* saved with another stop threshold or another max_depth
FileNotUsable ==
    \/ Cfg.tree_file.kind # "json"
    \/ Cfg.tree_file.stop_threshold # Cfg.stop_threshold
    \/ Cfg.tree_file.max_depth # Cfg.max_depth

\* C19: the builder gets the file's tree only when the stored stop
\* threshold and max_depth both equal the run's; otherwise it gets none:
\* no node of the file is in the heap, nothing is reused (no short-circuit,
\* no graft), and the run fails only if a call to the repository does.
C19_PreviousTreeValidated ==
    /\ FileNotUsable =>
          /\ Cfg.previous = <<>>
          /\ previous_lookup = <<>>
          /\ stats.tree_cache_reused = 0
          /\ \A n \in Tree : ~IsPrevious(n)
          /\ Returned => get_root_hash \in retrieved
          /\ pc = "failed" => failures > 0
    /\ ~FileNotUsable => Cfg.previous = Cfg.tree_file.tree

\* a run that returned after fetching every catalog although the file's
\* tree has the current root hash, the file having another stop threshold
C19_Witness ==
    /\ Returned
    /\ Cfg.tree_file.kind = "json"
    /\ Cfg.tree_file.stop_threshold # Cfg.stop_threshold
    /\ Cfg.tree_file.tree[1].hash = get_root_hash
    /\ retrieved = {c.hash : c \in Cfg.cats}

\* ------------------------------------------------------------------- C20
\* C20: at every moment of the build and in the returned tree, no two
\* nodes of the tree have the same path, whatever the catalogs list and in
\* whatever order the references are processed.
C20_PathUniqueness ==
    \A m \in Tree : \A n \in Tree : nodes[m].path = nodes[n].path => m = n

\* what does hold: paths are unique when every reference is listed by the
\* nearest catalog above it
C20_PathUniquenessOnLayout ==
    (\A c \in Cfg.cats : c.listed_by = <<>>) => C20_PathUniqueness

\* ------------------------------------------------------------------- C21
\* the keys to_dict wrote, at every level of the dict
RECURSIVE KeysWritten(_)
KeysWritten(data) ==
    DOMAIN data \cup
    UNION {KeysWritten(data["children"][i]) :
              i \in 1..Len(Get(data, "children", <<>>))}

\* the subtree decoded at b (heap ms) has, node by node, the depth and the
\* cumulative cost of the subtree at a (heap ns) it was encoded from, and
\* is_root false below the top; at the top (the decoded root) is_root is
\* root_flag
RECURSIVE DerivedRestored(_, _, _, _, _, _)
DerivedRestored(ns, a, ms, b, top, root_flag) ==
    /\ ms[b].depth = ns[a].depth
    /\ ms[b].cumulative_cost = ns[a].cumulative_cost
    /\ ms[b].is_root = (top /\ root_flag)
    /\ Len(ns[a].children) = Len(ms[b].children)
    /\ \A i \in 1..Len(ns[a].children) :
          DerivedRestored(ns, ns[a].children[i], ms, ms[b].children[i], FALSE, root_flag)

\* C21: to_dict writes none of depth, cumulative_cost and is_root, and
\* after from_dict and recalculate_tree the three are back: the depth and
\* cumulative cost of every node, is_root true at the root of the decoded
\* tree and false at every other node.
C21_DerivedFieldsRestored ==
    Returned =>
        /\ KeysWritten(to_dict(nodes, root_node))
              \cap {"depth", "cumulative_cost", "is_root"} = {}
        /\ DerivedRestored(nodes, root_node, RoundTrip.nodes, RoundTrip.node, TRUE, TRUE)

\* what does hold: the three keys are not written, depth and cumulative
\* cost are restored, and is_root is false at every decoded node
C21_DepthAndCostRestored ==
    Returned =>
        /\ KeysWritten(to_dict(nodes, root_node))
              \cap {"depth", "cumulative_cost", "is_root"} = {}
        /\ DerivedRestored(nodes, root_node, RoundTrip.nodes, RoundTrip.node, TRUE, FALSE)

\* ------------------------------------------------------------------- C22
\* the worker's handler ran: a logger.exception record is in the log
UnitFailed == \E r \in warned : r.call = "worker"

\* the units counted in flight are exactly those on the queue, those a
\* worker holds, and those a worker has counted and is about to put
InFlightIsWork ==
    items_in_flight =
        Len(work_queue) + Cardinality({w \in DOMAIN workers : MidUnit(w)})
                        + Cardinality({w \in DOMAIN workers : workers[w].pc = "put"})

\* a step that logs a unit-level failure
UnitFailureStep == \E r \in warned' \ warned : r.call = "worker"

\* C22: a unit-level failure decrements the in-flight counter by one for
\* the unit its worker holds, sets the completion signal when the counter
\* reaches zero, and leaves that worker at the top of its loop; while the
\* pool runs the counter equals the number of units enqueued and not
\* finished, so it is never decremented without a dequeued unit nor twice
\* for one unit.
C22_UnitFailureDecrementsOnce ==
    /\ [](pc = "wait" => InFlightIsWork)
    /\ [][UnitFailureStep =>
             /\ items_in_flight' = items_in_flight - 1
             /\ (items_in_flight' = 0 => done_event')
             /\ \E w \in DOMAIN workers :
                   /\ MidUnit(w)
                   /\ workers'[w].pc = "idle"
                   /\ \A v \in DOMAIN workers \ {w} : workers'[v] = workers[v]]_vars
    /\ [][items_in_flight' < items_in_flight =>
             /\ items_in_flight' = items_in_flight - 1
             /\ \E w \in DOMAIN workers : MidUnit(w) /\ workers'[w].pc = "idle"]_vars

\* a unit failed while other units were still in flight: the signal is not
\* set, the pool runs on and a worker is back at the top of its loop
C22_Witness ==
    /\ UnitFailed
    /\ pc = "wait"
    /\ ~done_event
    /\ items_in_flight > 0
    /\ \E w \in DOMAIN workers : workers[w].pc = "idle"

\* ------------------------------------------------------------------- C23
\* the catalog a unit's references were listed from
UnitCatalog(unit) == nodes[unit.parent_node].hash

\* C23: no unit on the queue, and no unit a worker is about to put, was
\* listed from a catalog that is still open; a unit is put only by the main
\* task closing the root catalog or by a worker that listed and closed the
\* child catalog the unit comes from, and the references of the unit are
\* that catalog's listing.
C23_NoOpenCatalogOnQueue ==
    /\ [](\A i \in DOMAIN work_queue : UnitCatalog(work_queue[i]) \notin open_catalogs)
    /\ [](\A w \in DOMAIN workers :
              workers[w].pc = "put" => workers[w].ref.hash \notin open_catalogs)
    /\ [][Len(work_queue') > Len(work_queue) =>
             LET unit == work_queue'[Len(work_queue')]
             IN  /\ work_queue' = Append(work_queue, unit)
                 /\ nodes[unit.parent_node].hash \notin open_catalogs'
                 /\ unit.nested_refs = ListNested(Cfg.cats, nodes[unit.parent_node].path)
                 /\ \/ pc = "rootclose" /\ unit.parent_node = root_node
                    \/ \E w \in DOMAIN workers :
                          /\ workers[w].pc = "put"
                          /\ unit.parent_node = workers[w].child_node
                          /\ nodes[unit.parent_node].hash = workers[w].ref.hash
                          /\ workers[w].ref.hash \notin open_catalogs]_vars

\* a unit listed from a child catalog waits on the queue while a worker
\* holds another catalog open
C23_Witness ==
    /\ \E i \in DOMAIN work_queue : work_queue[i].parent_node # root_node
    /\ open_catalogs # {}
    /\ pc = "wait"

\* ------------------------------------------------------------------- C24
\* C24: while the workers run, the catalogs fetched and not closed are at
\* most as many as the workers, and when build() returns none is open.
C24_EveryFetchedCatalogClosed ==
    /\ pc = "wait" => Cardinality(open_catalogs) <= Len(workers)
    /\ Returned => open_catalogs = {}

\* what does hold: when build() returns after a run in which no call
\* raised, the catalogs left open are exactly the fetched ones build() or
\* _process_single_ref did not hand on for listing (large, or at the depth
\* limit)
C24_OpenAreTheUnlisted ==
    Returned /\ failures = 0 =>
        open_catalogs =
            {nodes[n].hash : n \in {n \in Tree :
                /\ ~IsPrevious(n)
                /\ nodes[n].hash \in retrieved
                /\ IF n = root_node THEN ~RootDescends(nodes, n)
                   ELSE ~Descends(nodes, n)}}

\* ------------------------------------------------------------------- C25
\* the nodes this run created that are flagged large
LargeInTree == {n \in Tree : ~IsPrevious(n) /\ nodes[n].is_large}

\* C25: in every state a worker or a progress snapshot can observe while
\* the pool runs (no call having raised), the found counter counts only
\* references whose node is in the tree, and the large counter only nodes
\* flagged large in the tree.
C25_CountersMatchTree ==
    pc = "wait" /\ failures = 0 =>
        /\ stats.catalogs_found = count_nodes(nodes, root_node)
        /\ stats.large_catalogs_found = Cardinality(LargeInTree)

\* what does hold: the found counter is ahead of the tree by the references
\* whose size probe is awaited, and the large counter matches the tree
C25_FoundAheadByPendingProbes ==
    pc = "wait" /\ failures = 0 =>
        /\ stats.catalogs_found = count_nodes(nodes, root_node)
              + Cardinality({w \in DOMAIN workers : workers[w].pc = "probe"})
        /\ stats.large_catalogs_found = Cardinality(LargeInTree)

\* ------------------------------------------------------------------- C26
\* the shared state a step changes: the statistics counters by name, the
\* tree ("nodes": a child attached, a virtual node created, a node's size,
\* cost or flag corrected), the in-flight counter and the event
ActualWrites ==
    {f \in DOMAIN stats : stats'[f] # stats[f]}
        \cup (IF nodes' # nodes THEN {"nodes"} ELSE {})
        \cup (IF items_in_flight' # items_in_flight THEN {"items_in_flight"} ELSE {})
        \cup (IF done_event' # done_event THEN {"done_event"} ELSE {})

\* the bug of correcting the node after the fetch outside the lock
LockedWrites_CorrectionUnlocked(w) ==
    LET wk  == workers[w]
        ref == workers'[w].ref
        large_counters(child_size) ==
            IF child_size > Cfg.stop_threshold
            THEN {"large_catalogs_found", "bytes_skipped"} ELSE {}
    IN  IF failures' # failures /\ workers'[w].pc # "idle" THEN {}
        ELSE IF wk.pc = "ref" /\ workers'[w].pc = "idle"
        THEN {"items_in_flight", "done_event"}
        ELSE IF wk.pc = "ref" /\ should_ignore(ref.root_path)
        THEN {"ignored_count"}
        ELSE IF wk.pc = "ref" /\ CachedNode(nodes, ref) # 0
        THEN {"tree_cache_reused", "catalogs_found", "nodes"}
        ELSE IF wk.pc = "ref" /\ ref.size > 0
        THEN {"catalogs_found"} \cup large_counters(ref.size) \cup {"nodes"}
        ELSE IF wk.pc = "ref"
        THEN {"catalogs_found", "head_requests"}
        ELSE IF wk.pc = "probe"
        THEN large_counters(nodes'[workers'[w].child_node].size_bytes) \cup {"nodes"}
        ELSE IF wk.pc = "fetch"
        THEN {"catalogs_downloaded", "total_bytes_downloaded", "cache_hits",
              "bytes_from_cache"}
        ELSE IF wk.pc = "close" /\ wk.child_refs # {}
        THEN {"items_in_flight"}
        ELSE {}

\* What the "async with self._lock" blocks cover that worker w passes
\* through in the step it takes, from where the worker is (workers[w].pc)
\* and the reference it works on:
\*   a call that raised: none (the handler at 294-300 takes no lock);
\*   the end or the failure of a unit (303-306, 310-313);
\*   _process_single_ref up to its first await: ignore (364-365), graft
\*   (372-377), found (380-381), probe count (173-174), large (388-390),
\*   insert (393-401), budget check (409-411, read only);
\*   after the probe: large, insert, budget check;
\*   after the fetch: download counters (421-428), size correction (435-442);
\*   after close(): items_in_flight += 1 (291-292)
LockedWrites(w) ==
    LET wk  == workers[w]
        ref == workers'[w].ref
        large_counters(child_size) ==
            IF child_size > Cfg.stop_threshold
            THEN {"large_catalogs_found", "bytes_skipped"} ELSE {}
    IN  IF failures' # failures /\ workers'[w].pc # "idle" THEN {}
        ELSE IF wk.pc = "ref" /\ workers'[w].pc = "idle"
        THEN {"items_in_flight", "done_event"}
        ELSE IF wk.pc = "ref" /\ should_ignore(ref.root_path)
        THEN {"ignored_count"}
        ELSE IF wk.pc = "ref" /\ CachedNode(nodes, ref) # 0
        THEN {"tree_cache_reused", "catalogs_found", "nodes"}
        ELSE IF wk.pc = "ref" /\ ref.size > 0
        THEN {"catalogs_found"} \cup large_counters(ref.size) \cup {"nodes"}
        ELSE IF wk.pc = "ref"
        THEN {"catalogs_found", "head_requests"}
        ELSE IF wk.pc = "probe"
        THEN large_counters(nodes'[workers'[w].child_node].size_bytes) \cup {"nodes"}
        ELSE IF wk.pc = "fetch"
        THEN {"catalogs_downloaded", "total_bytes_downloaded", "cache_hits",
              "bytes_from_cache"}
             \cup (IF nodes[wk.child_node].size_bytes = 0
                   THEN {"nodes", "large_catalogs_found"} ELSE {})
        ELSE IF wk.pc = "close" /\ wk.child_refs # {}
        THEN {"items_in_flight"}
        ELSE {}

\* the workers that take the step
Stepping == {w \in DOMAIN workers : workers'[w] # workers[w]}

\* C26: while the workers run, a step is taken by one worker, everything it
\* changes in the tree, the statistics, the in-flight counter and the event
\* lies inside lock blocks that worker passes through in the step, and no
\* lock block spans two steps, so that no two workers are inside one at
\* the same time.
C26_MutationsUnderLock ==
    [][pc = "wait" /\ pc' = "wait" =>
          /\ Cardinality(Stepping) <= 1
          /\ \A w \in Stepping : ActualWrites \subseteq LockedWrites(w)
          /\ Stepping = {} => ActualWrites = {}]_vars

\* with two workers running, one has corrected the size of a node after
\* the fetch and found it large
C26_Witness ==
    /\ pc = "wait"
    /\ Len(workers) = 2
    /\ \E n \in Tree : /\ nodes[n].path = PY
                       /\ nodes[n].size_bytes = CatalogOf(nodes[n].hash).db_size
                       /\ nodes[n].is_large
    /\ stats.large_catalogs_found = 2

\* ------------------------------------------------------------------- C27
\* the absolute paths of at most MaxPathLen characters over a, b and "/":
\* a leading "/", no "//", no trailing "/"
WellFormedPaths ==
    {p \in UNION {[1..k -> {Slash, "a", "b"}] : k \in 2..MaxPathLen} :
        /\ p[1] = Slash
        /\ p[Len(p)] # Slash
        /\ \A i \in 1..(Len(p) - 1) : ~(p[i] = Slash /\ p[i + 1] = Slash)}

\* the numbers of K in increasing order
RECURSIVE Increasing(_)
Increasing(K) ==
    IF K = {} THEN <<>> ELSE <<Min(K)>> \o Increasing(K \ {Min(K)})

\* the prefixes of C that end where a component ends and are longer than P
PathPrefixesBeyond(P, C) ==
    LET ends == {k \in 1..Len(C) :
                    /\ k > Len(P)
                    /\ (k = Len(C) \/ C[k + 1] = Slash)}
        in_order == Increasing(ends)
    IN  [i \in 1..Len(in_order) |-> SubSeq(C, 1, in_order[i])]

SegmentsAsSpecified(P, C) ==
    LET segments == get_path_segments(P, C)
    IN  /\ segments = PathPrefixesBeyond(P, C)
        /\ segments # <<>>
        /\ segments[Len(segments)] = C
        /\ \A i \in 1..Len(segments) :
              /\ segments[i][1] = Slash
              /\ segments[i][2] # Slash
              /\ \A j \in 1..(Len(segments[i]) - 1) :
                    ~(segments[i][j] = Slash /\ segments[i][j + 1] = Slash)
        /\ P = RootPath => segments[1] = <<Slash>> \o Head(Split(Tail(C)))

\* the (parent path, reference path) pairs _insert_at_path and
\* _graft_at_path are called with in this state
PathsResolved ==
    {<<nodes[workers[w].parent_node].path, workers[w].ref.root_path>> :
        w \in {w \in DOMAIN workers : workers[w].ref # NoRef}}

\* C27: for a parent path P and a strict descendant C of it,
\* _get_path_segments gives the prefixes of C longer than P that end at a
\* component's end, shortest first and C last; each starts with one "/",
\* none has "//", and below the root the first is C's first component.
\* Checked for every pair of well-formed paths up to MaxPathLen and for
\* every pair the workers resolve.
C27_PathSegments ==
    /\ scn = 1 /\ pc = "start" =>
          \A P \in WellFormedPaths \cup {RootPath} : \A C \in WellFormedPaths :
              IsUnder(C, P) => SegmentsAsSpecified(P, C)
    /\ \A pr \in PathsResolved :
          IsUnder(pr[2], pr[1]) => SegmentsAsSpecified(pr[1], pr[2])

\* a worker resolves a reference three components below the root: the
\* directories in between are in the tree as virtual nodes
C27_Witness ==
    /\ \E pr \in PathsResolved :
          /\ pr[1] = RootPath
          /\ Len(get_path_segments(pr[1], pr[2])) = 3
    /\ \E n \in Tree : nodes[n].is_virtual /\ nodes[n].path = PAB

\* ------------------------------------------------------------------- C28
\* the nodes of references with size hint 0 whose catalog was fetched
FetchedWithoutHint ==
    {n \in Tree \ {root_node} :
        /\ ~IsPrevious(n)
        /\ ~nodes[n].is_virtual
        /\ CatalogOf(nodes[n].hash).ref_size = 0
        /\ nodes[n].hash \in retrieved
        /\ [root_path |-> nodes[n].path, call |-> "fetch"] \notin warned}

\* no unit was or will be enqueued from node n
NoUnitFrom(n) ==
    /\ nodes[n].children = <<>>
    /\ \A i \in DOMAIN work_queue : work_queue[i].parent_node # n
    /\ \A w \in DOMAIN workers :
          /\ workers[w].parent_node # n
          /\ workers[w].child_node = n => workers[w].pc \notin {"list", "close", "put"}

\* C28: once a reference with size hint 0 is fetched, its node has the
\* fetched catalog's db_size as size, a cumulative cost of its parent's
\* plus that size already while the workers run, is_large set from the
\* corrected size, and when it is large no unit is enqueued from it.
C28_SizeCorrection ==
    \A n \in FetchedWithoutHint :
        /\ nodes[n].size_bytes = CatalogOf(nodes[n].hash).db_size
        /\ pc = "wait" =>
              nodes[n].cumulative_cost =
                  nodes[TreeParent(n)].cumulative_cost + nodes[n].size_bytes
        /\ nodes[n].is_large = (nodes[n].size_bytes > Cfg.stop_threshold)
        /\ nodes[n].is_large => NoUnitFrom(n)

\* what does hold: a node the probe gave a size keeps the probed size; a
\* node the probe gave none gets db_size, but its cumulative cost stays its
\* parent's until the final pass; is_large follows the size the node has,
\* and a large node gives no unit
C28_SizeCorrectionAsCoded ==
    \A n \in FetchedWithoutHint :
        LET cat == CatalogOf(nodes[n].hash)
            probed_size == IF cat.object_size # None THEN cat.object_size ELSE 0
        IN  /\ nodes[n].size_bytes = IF probed_size = 0 THEN cat.db_size
                                     ELSE probed_size
            /\ pc = "wait" =>
                  nodes[n].cumulative_cost =
                      nodes[TreeParent(n)].cumulative_cost + probed_size
            /\ Returned =>
                  nodes[n].cumulative_cost =
                      nodes[TreeParent(n)].cumulative_cost + nodes[n].size_bytes
            /\ nodes[n].is_large = (nodes[n].size_bytes > Cfg.stop_threshold)
            /\ nodes[n].is_large => NoUnitFrom(n)

\* ------------------------------------------------------------------- C29
\* the previous tree's non-virtual node with the path and hash of ref, 0
\* when there is none
Unchanged(ref) ==
    LET hits == {m \in PrevNodes : /\ ~Cfg.previous[m].is_virtual
                                   /\ Cfg.previous[m].path = ref.root_path
                                   /\ Cfg.previous[m].hash = ref.hash}
    IN  IF hits = {} THEN 0 ELSE CHOOSE m \in hits : TRUE

\* the previous-tree node objects in a tree
PreviousIn(ns) == {n \in TreeNodes(ns, root_node) : IsPrevious(n)}

\* a worker's step that processes the next reference of its unit, the
\* reference not being ignored
ProcessesRef(w) ==
    /\ pc = "wait"
    /\ workers[w].pc = "ref"
    /\ workers'[w].pc # "idle"
    /\ workers'[w].nested_refs # workers[w].nested_refs
    /\ ~should_ignore(workers'[w].ref.root_path)

\* the step grafts the previous subtree at m for reference ref
Grafts(w, ref, m) ==
    LET subtree == TreeNodes(Cfg.previous, m)
        reused  == Cardinality({d \in subtree : ~Cfg.previous[d].is_virtual})
    IN  /\ workers'[w].pc = "ref"
        /\ UNCHANGED <<probed, retrieved, work_queue, items_in_flight>>
        /\ stats' = [stats EXCEPT !.catalogs_found = @ + reused,
                                  !.tree_cache_reused = @ + reused]
        /\ PreviousIn(nodes') = PreviousIn(nodes) \cup subtree
        /\ m \notin PreviousIn(nodes)
        /\ \E p \in TreeNodes(nodes', root_node) :
              /\ m \in Kids(nodes', p)
              /\ nodes'[p].path = Dir(ref.root_path)
        /\ \A d \in subtree :
              /\ SameFields(nodes'[d], Cfg.previous[d])
              /\ nodes'[d].children = Cfg.previous[d].children

\* the step starts the normal processing of ref: it is counted as found
\* once, nothing of the previous tree is attached, and either the probe is
\* awaited or a fresh node is in the tree at its path
StartsFetch(w, ref) ==
    /\ stats'.catalogs_found = stats.catalogs_found + 1
    /\ stats'.tree_cache_reused = stats.tree_cache_reused
    /\ PreviousIn(nodes') = PreviousIn(nodes)
    /\ \/ workers'[w].pc = "probe" /\ ref.size = 0 /\ nodes' = nodes
       \/ /\ ref.size > 0
          /\ ~IsPrevious(workers'[w].child_node)
          /\ workers'[w].child_node \in TreeNodes(nodes', root_node) \ Tree
          /\ nodes'[workers'[w].child_node].path = ref.root_path
          /\ nodes'[workers'[w].child_node].hash = ref.hash
          /\ workers'[w].pc = "fetch" <=>
                /\ ~nodes'[workers'[w].child_node].is_large
                /\ ~DepthExceeded(nodes', workers'[w].child_node)
                /\ ~BudgetExhausted(stats)

\* C29: a reference that is not ignored and whose path and hash are those
\* of a non-virtual node of the previous tree is neither probed nor
\* fetched: the previous subtree's node objects are attached, with their
\* fields and children as loaded, below the node at the reference's
\* directory, found and reused grow by the subtree's non-virtual count,
\* and no unit is ever enqueued from a previous-tree node; a reference
\* whose hash differs is processed as a fetch and the step attaches
\* nothing of the previous tree.
C29_PerReferenceGraft ==
    /\ [][\A w \in Stepping : ProcessesRef(w) =>
             IF Unchanged(workers'[w].ref) # 0
             THEN Grafts(w, workers'[w].ref, Unchanged(workers'[w].ref))
             ELSE StartsFetch(w, workers'[w].ref)]_vars
    /\ [](pc = "wait" =>
             /\ \A n \in PreviousIn(nodes) :
                   nodes[n].hash \notin (probed \cup retrieved)
             /\ \A i \in DOMAIN work_queue : work_queue[i].parent_node \notin PreviousIn(nodes)
             /\ \A w \in DOMAIN workers :
                   /\ workers[w].parent_node \notin PreviousIn(nodes)
                   /\ workers[w].child_node \in PreviousIn(nodes) =>
                          workers[w].pc \notin {"probe", "fetch", "list", "close", "put"})

\* /a changed and was fetched; /a/b below it and /c/d were grafted, the
\* latter below a fresh virtual node
C29_Witness ==
    /\ Returned
    /\ stats.tree_cache_reused = 2
    /\ \E n \in Tree : /\ ~IsPrevious(n) /\ nodes[n].path = PA
                       /\ nodes[n].hash \in retrieved
                       /\ \E c \in Kids(nodes, n) : IsPrevious(c) /\ nodes[c].path = PAB
    /\ \E n \in Tree : /\ ~IsPrevious(n) /\ nodes[n].is_virtual
                       /\ \E c \in Kids(nodes, n) : IsPrevious(c) /\ nodes[c].path = PCD

\* ------------------------------------------------------------------- C30
\* path equals an ignore prefix or lies below one
AtOrBelowIgnored(path) ==
    \E q \in Cfg.ignore_paths : path = q \/ StartsWith(path, q \o <<Slash>>)

\* a worker's step that takes the next reference of its unit
TakesRef(w) ==
    /\ pc = "wait"
    /\ workers[w].pc = "ref"
    /\ workers'[w].nested_refs # workers[w].nested_refs
    /\ workers'[w].ref \in workers[w].nested_refs

\* C30: the step that processes a reference at or below an ignore prefix
\* adds one to the ignored counter and changes no other counter, no node,
\* no probe or fetch record and no queue or in-flight state; the worker
\* goes on with the next reference; nothing is grafted although the
\* previous tree may hold the reference's path and hash.
C30_IgnoreStep ==
    [][\A w \in Stepping :
          TakesRef(w) /\ AtOrBelowIgnored(workers'[w].ref.root_path) =>
              /\ stats' = [stats EXCEPT !.ignored_count = @ + 1]
              /\ UNCHANGED <<nodes, probed, retrieved, work_queue, items_in_flight,
                             done_event, open_catalogs, failures, warned>>
              /\ workers'[w].pc = "ref"
              /\ workers'[w].child_node = 0]_vars

\* both references of the root were ignored, one equal to a prefix and one
\* below a prefix, although the previous tree holds both unchanged: the
\* returned tree is the root alone
C30_Witness ==
    /\ Returned
    /\ Cfg.ignore_paths = {PA, PC}
    /\ stats.ignored_count = 2
    /\ stats.tree_cache_reused = 0
    /\ \A ref \in ListNested(Cfg.cats, RootPath) : Unchanged(ref) # 0
    /\ Tree = {root_node}

\* ------------------------------------------------------------------- C31
\* the node a worker's step has created for the reference it works on
Inserted(w) ==
    /\ workers'[w].child_node \in TreeNodes(nodes', root_node) \ Tree
    /\ ~IsPrevious(workers'[w].child_node)
    /\ nodes'[workers'[w].child_node].path = workers'[w].ref.root_path

\* C31: a reference that is neither ignored nor grafted and carries a
\* nonzero size hint is inserted with the hint as size, without a probe and
\* with the probe counter unchanged; with hint 0 the probe counter grows by
\* one and one probe is awaited, and when it answers the node is inserted
\* with the probed size, or 0 when the probe has no size; the probes made
\* are those of the references with hint 0, one each.
C31_SizeResolution ==
    /\ [][\A w \in Stepping :
             /\ ProcessesRef(w) /\ Unchanged(workers'[w].ref) = 0 =>
                   IF workers'[w].ref.size # 0
                   THEN /\ stats'.head_requests = stats.head_requests
                        /\ probed' = probed
                        /\ workers'[w].pc # "probe"
                        /\ Inserted(w)
                        /\ nodes'[workers'[w].child_node].size_bytes = workers'[w].ref.size
                   ELSE /\ stats'.head_requests = stats.head_requests + 1
                        /\ workers'[w].pc = "probe"
                        /\ workers'[w].ref.hash \notin probed
                        /\ nodes' = nodes
             /\ pc = "wait" /\ workers[w].pc = "probe" =>
                   /\ probed' = probed \cup {workers[w].ref.hash}
                   /\ stats'.head_requests = stats.head_requests
                   /\ failures' = failures =>
                         /\ Inserted(w)
                         /\ nodes'[workers'[w].child_node].size_bytes =
                               LET size == CatalogOf(workers[w].ref.hash).object_size
                               IN  IF size = None THEN 0 ELSE size]_vars
    /\ [](/\ \A h \in probed : CatalogOf(h).ref_size = 0
          /\ stats.head_requests =
                Cardinality(probed)
                  + Cardinality({w \in DOMAIN workers : workers[w].pc = "probe"}))

\* both kinds of probe were made in one run: one answered a size, one had
\* none, and a reference with a size hint was inserted without a probe
C31_Witness ==
    /\ Returned
    /\ stats.head_requests = 2
    /\ \E h \in probed : CatalogOf(h).object_size = None
    /\ \E h \in probed : CatalogOf(h).object_size # None
    /\ \E n \in Tree \ {root_node} : /\ CatalogOf(nodes[n].hash).ref_size > 0
                                     /\ nodes[n].hash \notin probed

\* ------------------------------------------------------------------- C32
\* the size _get_catalog_size resolves for a catalog's reference
ResolvedSize(cat) ==
    IF cat.ref_size > 0 THEN cat.ref_size
    ELSE IF cat.object_size # None THEN cat.object_size
    ELSE 0

\* a worker's step that ends the size resolution of its reference: the
\* reference is taken with a size hint, or its probe answers
ResolvesSize(w) ==
    \/ /\ ProcessesRef(w)
       /\ Unchanged(workers'[w].ref) = 0
       /\ workers'[w].ref.size > 0
    \/ /\ pc = "wait"
       /\ workers[w].pc = "probe"
       /\ failures' = failures

\* C32: the step that resolves the size of a non-ignored, non-grafted
\* reference above the stop threshold attaches a node flagged large at its
\* path, adds one to the large counter and the resolved size to the skipped
\* bytes, and leaves the worker at the next reference with no fetch; such a
\* catalog is never fetched and no unit comes from its node; a size equal
\* to the threshold is not large and counts nothing.
C32_LargeStop ==
    /\ [][\A w \in Stepping : ResolvesSize(w) =>
             LET size == ResolvedSize(CatalogOf(workers'[w].ref.hash))
                 node == workers'[w].child_node
             IN  /\ Inserted(w)
                 /\ nodes'[node].size_bytes = size
                 /\ IF size > Cfg.stop_threshold
                    THEN /\ nodes'[node].is_large
                         /\ nodes'[node].children = <<>>
                         /\ stats'.large_catalogs_found = stats.large_catalogs_found + 1
                         /\ stats'.bytes_skipped = stats.bytes_skipped + size
                         /\ workers'[w].pc = "ref"
                         /\ retrieved' = retrieved
                    ELSE /\ ~nodes'[node].is_large
                         /\ stats'.large_catalogs_found = stats.large_catalogs_found
                         /\ stats'.bytes_skipped = stats.bytes_skipped]_vars
    /\ [](\A n \in Tree \ {root_node} :
             (/\ ~IsPrevious(n)
              /\ ~nodes[n].is_virtual
              /\ ResolvedSize(CatalogOf(nodes[n].hash)) > Cfg.stop_threshold) =>
                 /\ nodes[n].is_large
                 /\ nodes[n].hash \notin retrieved
                 /\ NoUnitFrom(n))

\* the run returned with /x large by its hint and /z large by its probe,
\* 8 MiB skipped, and /y, exactly at the threshold, fetched and descended
C32_Witness ==
    /\ Returned
    /\ stats.large_catalogs_found = 2
    /\ stats.bytes_skipped = 8
    /\ \E n \in Tree : /\ nodes[n].path = PY
                       /\ nodes[n].size_bytes = Cfg.stop_threshold
                       /\ ~nodes[n].is_large
                       /\ nodes[n].hash \in retrieved
                       /\ nodes[n].children # <<>>

\* ------------------------------------------------------------------- C33
\* the root build() creates is large, or the depth limit is zero
RootStops ==
    \/ CatalogOf(get_root_hash).db_size > Cfg.stop_threshold
    \/ Cfg.max_depth = 0

\* the returned tree is the root alone, with one catalog downloaded
SingleRoot ==
    /\ Tree = {root_node}
    /\ nodes[root_node].children = <<>>
    /\ stats.catalogs_downloaded = 1

\* the example of the root-only repository of 1 MiB under a threshold of 2
RootOnlyCase ==
    /\ Cfg.cats = { Cat(RootPath, "r1", 1, 1, 1, FALSE) }
    /\ Cfg.stop_threshold = 2
    /\ Cfg.previous = <<>>

\* C33: with no short-circuit, the root is fetched once, from build() only,
\* and the root node has path "/", depth 0, is_root, cumulative_cost =
\* size_bytes = the catalog's size and is_large = (size > threshold); when
\* the root is large or max_depth is 0 build() returns in that very step:
\* the root is not listed, no worker exists, no reference is processed, and
\* the tree is the root alone with catalogs_downloaded = 1; the root-only
\* repository of 1 MiB returns a single root, not large, 1 downloaded.
C33_RootResolution ==
    /\ [][/\ pc' = "rootfetch" => (pc = "start" /\ ~RootUnchanged)
          /\ (get_root_hash \in retrieved' \ retrieved) => pc = "rootfetch"
          /\ (pc = "rootfetch" /\ failures' = failures) =>
                LET size == CatalogOf(get_root_hash).db_size
                    root == nodes'[root_node']
                IN  /\ root_node' \notin PreviousIn(nodes)
                    /\ root.path = RootPath
                    /\ root.hash = get_root_hash
                    /\ root.depth = 0
                    /\ root.is_root
                    /\ root.size_bytes = size
                    /\ root.cumulative_cost = size
                    /\ root.is_large = (size > Cfg.stop_threshold)
                    /\ stats'.catalogs_downloaded = 1
                    /\ pc' = IF RootStops THEN "done" ELSE "rootlist"]_vars
    /\ []((~RootUnchanged /\ RootStops) =>
             /\ pc \in {"start", "rootfetch", "done", "failed"}
             /\ workers = <<>>
             /\ work_queue = <<>>
             /\ probed = {}
             /\ retrieved \subseteq {get_root_hash}
             /\ stats.ignored_count = 0
             /\ Returned => SingleRoot)
    /\ []((Returned /\ RootOnlyCase) =>
             /\ SingleRoot
             /\ ~nodes[root_node].is_large
             /\ nodes[root_node].size_bytes = 1)

\* build() returned the large root of a repository that has a nested
\* catalog below it
C33_Witness ==
    /\ Returned
    /\ ~RootUnchanged
    /\ nodes[root_node].is_large
    /\ ListNested(Cfg.cats, RootPath) # {}
    /\ SingleRoot

\* build() returned with a depth limit of zero
C33_DepthZeroReached == Returned /\ Cfg.max_depth = 0 /\ SingleRoot

\* build() returned the root-only repository's tree
C33_RootOnlyReached == Returned /\ RootOnlyCase /\ workers # <<>>

\* ------------------------------------------------------------------- C34
\* max_depth is set and the node lies deeper
BeyondMaxDepth(ns, n) == Cfg.max_depth # None /\ ns[n].depth > Cfg.max_depth

\* max_catalogs is set and the downloaded counter has reached it
BudgetReached == Cfg.max_catalogs # None /\ stats.catalogs_downloaded >= Cfg.max_catalogs

\* the catalogs that are never asked for: below the depth limit
NeverFetched ==
    {n \in Tree : ~IsPrevious(n) /\ ~nodes[n].is_virtual /\ BeyondMaxDepth(nodes, n)}

\* the catalogs at the depth limit itself
AtMaxDepth ==
    {n \in Tree : ~IsPrevious(n) /\ ~nodes[n].is_virtual /\ nodes[n].depth = Cfg.max_depth}

\* C34: the step that resolves the size of a reference at or under the
\* threshold, when the new node is deeper than max_depth or the downloaded
\* counter has reached max_catalogs at that step, attaches the node and goes
\* on with the next reference: no fetch is started, nothing is fetched,
\* the download counters stay, nothing is enqueued; a fetch is only ever
\* started by a step where neither stop applies, only a fetching worker
\* fetches, and a unit only comes from a listed catalog; a catalog deeper
\* than max_depth is never fetched and one at max_depth is fetched but
\* hands no unit on.
C34_DepthAndBudgetStops ==
    /\ [][\A w \in Stepping :
             /\ (/\ ResolvesSize(w)
                 /\ ResolvedSize(CatalogOf(workers'[w].ref.hash)) <= Cfg.stop_threshold
                 /\ \/ BeyondMaxDepth(nodes', workers'[w].child_node)
                    \/ BudgetReached) =>
                   /\ Inserted(w)
                   /\ nodes'[workers'[w].child_node].hash = workers'[w].ref.hash
                   /\ ~nodes'[workers'[w].child_node].is_large
                   /\ nodes'[workers'[w].child_node].children = <<>>
                   /\ workers'[w].pc = "ref"
                   /\ retrieved' = retrieved
                   /\ stats'.catalogs_downloaded = stats.catalogs_downloaded
                   /\ stats'.total_bytes_downloaded = stats.total_bytes_downloaded
                   /\ stats'.cache_hits = stats.cache_hits
                   /\ stats'.bytes_from_cache = stats.bytes_from_cache
                   /\ UNCHANGED <<work_queue, items_in_flight>>
             /\ (workers'[w].pc = "fetch" /\ workers[w].pc # "fetch") =>
                   /\ ResolvesSize(w)
                   /\ ~BeyondMaxDepth(nodes', workers'[w].child_node)
                   /\ ~BudgetReached
             /\ (workers'[w].pc = "list" /\ workers[w].pc # "list") =>
                   /\ workers[w].pc = "fetch"
                   /\ Cfg.max_depth # None =>
                         nodes'[workers[w].child_node].depth < Cfg.max_depth
             /\ retrieved' # retrieved =>
                   /\ workers[w].pc = "fetch"
                   /\ retrieved' = retrieved \cup {workers[w].ref.hash}
             /\ Len(work_queue') > Len(work_queue) =>
                   /\ workers[w].pc = "put"
                   /\ work_queue'[Len(work_queue')].parent_node = workers[w].child_node
                   /\ workers[w].child_node \notin AtMaxDepth]_vars
    /\ [](/\ \A n \in NeverFetched :
                nodes[n].hash \notin retrieved /\ NoUnitFrom(n)
          /\ \A n \in AtMaxDepth : NoUnitFrom(n))

\* the run with depth limit 1 and budget 2 returned: /c/d, below the
\* limit, is in the tree and was not fetched; /a, at the limit, was fetched
\* and has no children although it lists /a/x; /b was stopped by the budget
C34_Witness ==
    /\ Returned
    /\ Cfg.max_depth = 1 /\ Cfg.max_catalogs = 2
    /\ stats.catalogs_downloaded = 2
    /\ \E n \in NeverFetched : nodes[n].path = PCD /\ nodes[n].depth = 2
    /\ \E n \in AtMaxDepth : /\ nodes[n].path = PA
                             /\ nodes[n].hash \in retrieved
                             /\ ListNested(Cfg.cats, PA) # {}
    /\ \E n \in AtMaxDepth : /\ nodes[n].path = PB
                             /\ nodes[n].hash \notin retrieved
                             /\ ~nodes[n].is_large
    /\ failures = 0

\* ------------------------------------------------------------------- C35
\* the step attaches a node to the tree
Attaches == root_node # 0 /\ TreeNodes(nodes', root_node') # Tree

\* a worker's step that ends its work on a reference (ignored, grafted,
\* stopped as large, stopped by depth or budget, or downloaded and
\* corrected) having attached a node or changed a counter
EndsRef(w) ==
    /\ pc = "wait"
    /\ workers[w].pc \in {"ref", "probe", "fetch"}
    /\ workers'[w].pc \in {"ref", "list"}
    /\ failures' = failures
    /\ stats' # stats \/ Attaches

\* C35: after the root fetch and after every step that ends a worker's
\* work on a reference having attached a node or changed a counter,
\* progress_callback has been invoked for that reference with a snapshot
\* of the counters as they are after the step.
C35_ProgressAfterEveryStep ==
    [][/\ (pc = "rootfetch" /\ failures' = failures) =>
             progress_callback' = report_progress(RootPath, stats')
       /\ \A w \in Stepping : EndsRef(w) =>
             progress_callback' = report_progress(workers'[w].ref.root_path, stats')]_vars

\* what the code does: the callback is invoked by the root fetch and by
\* every download and by nothing else, so the last snapshot always has the
\* current download and cache counters, and may lag behind on the found,
\* large, probe and skipped counters
C35_ProgressAsCoded ==
    /\ [][progress_callback' # progress_callback <=>
             \/ pc = "rootfetch" /\ failures' = failures
             \/ stats'.catalogs_downloaded # stats.catalogs_downloaded]_vars
    /\ [](IF stats.catalogs_downloaded = 0 THEN progress_callback = NoProgress
          ELSE /\ progress_callback.catalogs_downloaded = stats.catalogs_downloaded
               /\ progress_callback.bytes_downloaded = stats.total_bytes_downloaded
               /\ progress_callback.cache_hits = stats.cache_hits
               /\ progress_callback.bytes_from_cache = stats.bytes_from_cache
               /\ progress_callback.catalogs_found <= stats.catalogs_found
               /\ progress_callback.large_catalogs_found <= stats.large_catalogs_found
               /\ progress_callback.head_requests <= stats.head_requests
               /\ progress_callback.bytes_skipped <= stats.bytes_skipped)

\* build() returned and the last snapshot lacks a large catalog
C35_StaleAtReturn ==
    /\ Returned
    /\ progress_callback # NoProgress
    /\ progress_callback.large_catalogs_found < stats.large_catalogs_found

\* ------------------------------------------------------------------- C36
\* sequence s is the beginning of sequence t
IsPrefix(s, t) == Len(s) <= Len(t) /\ \A i \in DOMAIN s : t[i] = s[i]

\* the virtual nodes of the tree at the path of a worker's reference
VirtualAt(path) == {v \in Tree : nodes[v].is_virtual /\ nodes[v].path = path}

\* the step attaches the worker's node: a new one, or a grafted subtree
AttachesNode(w) ==
    /\ pc = "wait"
    /\ workers'[w].child_node # 0
    /\ workers'[w].child_node \in TreeNodes(nodes', root_node) \ Tree

\* C36: in every step of the build the node objects stay, every node keeps
\* its path and the children it has, in their order (children are only
\* appended), and the root once set stays; a virtual node has an empty
\* hash and size 0 and stays virtual with them; the step that attaches a
\* fetched or grafted catalog at the path of a virtual node of the tree
\* attaches another node object and leaves the virtual one as it is.
C36_TreeOnlyGrows ==
    /\ [][/\ Len(nodes') >= Len(nodes)
          /\ root_node # 0 => root_node' = root_node
          /\ \A n \in DOMAIN nodes :
                /\ nodes'[n].path = nodes[n].path
                /\ IsPrefix(nodes[n].children, nodes'[n].children)
                /\ nodes[n].is_virtual =>
                      /\ nodes'[n].is_virtual
                      /\ nodes'[n].hash = ""
                      /\ nodes'[n].size_bytes = 0
          /\ \A w \in Stepping : AttachesNode(w) =>
                \A v \in VirtualAt(nodes'[workers'[w].child_node].path) :
                    /\ workers'[w].child_node # v
                    /\ nodes'[v] = nodes[v]
                    /\ v \in TreeNodes(nodes', root_node)]_vars
    /\ [](\A n \in DOMAIN nodes :
             nodes[n].is_virtual => nodes[n].hash = "" /\ nodes[n].size_bytes = 0)

\* build() returned a tree in which a virtual node, still virtual and with
\* its child, stands beside a real catalog's node at the same path, and a
\* worker attached that real node while the virtual one was in the tree
C36_Witness ==
    /\ Returned
    /\ \E v, n \in Tree :
          /\ nodes[v].is_virtual /\ ~nodes[n].is_virtual
          /\ nodes[v].path = nodes[n].path
          /\ nodes[v].children # <<>>
          /\ nodes[n].hash # ""
          /\ v < n

\* ------------------------------------------------------------------- C37
\* C37: once done_event is set nothing is in flight, the queue is empty and
\* no worker is inside a unit; from then on a worker's step only ends the
\* worker, and no step changes a counter, the queue, the probe and fetch
\* records or a node, but for the one step of build() that recalculates
\* and returns, which is taken with the event set and every worker
\* stopped, and after which the tree stays as returned.
C37_DoneOrdering ==
    /\ [](done_event =>
             /\ items_in_flight = 0
             /\ work_queue = <<>>
             /\ \A w \in DOMAIN workers : ~MidUnit(w))
    /\ [][done_event =>
             /\ \A w \in Stepping : workers'[w].pc \in {"exited", "cancelled"}
             /\ UNCHANGED <<stats, work_queue, items_in_flight, retrieved, probed,
                            root_node, progress_callback>>
             /\ done_event'
             /\ nodes' # nodes =>
                   /\ pc = "gather" /\ pc' = "done"
                   /\ nodes' = recalculate_tree(nodes, root_node)]_vars
    /\ [][(pc \in {"wait", "gather"} /\ pc' = "done") =>
             /\ pc = "gather"
             /\ done_event
             /\ \A w \in DOMAIN workers : Stopped(w)
             /\ workers' = workers]_vars
    /\ [][pc = "done" => nodes' = nodes]_vars

\* build() returned a tree the workers assembled, one worker having
\* returned by itself after the event was set and one having been cancelled
C37_Witness ==
    /\ Returned
    /\ done_event
    /\ Cardinality(Tree) > 2
    /\ \E w \in DOMAIN workers : workers[w].pc = "exited"
    /\ \E w \in DOMAIN workers : workers[w].pc = "cancelled"

\* ------------------------------------------------------------------- C38
\* a size probe raised in this run
ProbeRaised == \E r \in warned : r.call = "probe"

\* the references build() skipped as ignored are not in the tree it made
\* (the nodes of grafted subtrees apart)
IgnoredLeftOut ==
    \A n \in Tree : IsPrevious(n) \/ n = root_node \/ nodes[n].is_virtual
                    \/ ~should_ignore(nodes[n].path)

\* C38: when build() returns without the root short-circuit and no size
\* probe has raised, catalogs_found equals count_nodes of the returned
\* tree, also when fetches, listings or closes failed: the root and every
\* inserted or grafted non-virtual node are counted once, virtual nodes
\* and ignored references are not counted.
C38_FoundMatchesTree ==
    (Returned /\ ~ShortCircuitCase /\ ~ProbeRaised) =>
        /\ stats.catalogs_found = count_nodes(nodes, root_node)
        /\ stats.catalogs_found =
              Cardinality({n \in Tree : ~nodes[n].is_virtual})
        /\ IgnoredLeftOut

\* build() returned a tree with a grafted subtree of more than one catalog,
\* a virtual node, and an ignored reference, all counted as claimed
C38_Witness ==
    /\ Returned /\ ~ShortCircuitCase /\ ~ProbeRaised
    /\ stats.ignored_count > 0
    /\ stats.tree_cache_reused > 1
    /\ stats.catalogs_found > stats.tree_cache_reused + 1
    /\ \E n \in Tree : nodes[n].is_virtual
    /\ Cardinality(Tree) > stats.catalogs_found

\* build() returned with fewer nodes than counted, a probe having raised
C38_ProbeRaisedOvercounts ==
    /\ Returned /\ ProbeRaised
    /\ stats.catalogs_found > count_nodes(nodes, root_node)

\* ------------------------------------------------------------------- C39
\* the nodes of the tree flagged large
LargeNodes == {n \in Tree : nodes[n].is_large}

\* C39: when build() returns and no previous tree was supplied,
\* large_catalogs_found is the number of nodes of the returned tree with
\* is_large set, whether the flag was set at insertion or by the size
\* correction after the fetch, and also when calls failed.
C39_LargeMatchesTree ==
    (Returned /\ Cfg.previous = <<>>) =>
        stats.large_catalogs_found = Cardinality(LargeNodes)

\* build() returned with two large nodes counted: one flagged at insertion
\* and never fetched, one flagged by the correction after its fetch
C39_Witness ==
    /\ Returned /\ Cfg.previous = <<>>
    /\ stats.large_catalogs_found = 2
    /\ \E n \in LargeNodes : nodes[n].hash \notin retrieved
    /\ \E n \in LargeNodes : /\ n # root_node
                             /\ nodes[n].hash \in retrieved
                             /\ nodes[n].hash \in probed

\* ------------------------------------------------------------------- C40
\* the tree at hand: the one build() assembles or returned, before that
\* the previous tree (0: none)
TreeAtHand == IF root_node # 0 THEN root_node ELSE previous_tree

\* depth and cumulative_cost values a node may hold before the pass
StaleDepths == {0, 5}
StaleCosts == {0, 3}

\* the heap with the depth and cost of every node of the tree overwritten
Stale(ns, r, d, c) ==
    LET inside == TreeNodes(ns, r)
    IN  [n \in DOMAIN ns |->
            IF n \in inside
            THEN [ns[n] EXCEPT !.depth = d + n, !.cumulative_cost = c + 2 * n]
            ELSE ns[n]]

\* node record `after` is `before` but for depth and cumulative_cost
OnlyDepthAndCost(before, after) ==
    [after EXCEPT !.depth = before.depth,
                  !.cumulative_cost = before.cumulative_cost] = before

\* C40: for the tree of every state of a run (while it is assembled, with
\* grafted and virtual nodes and stale costs, and as returned), one
\* recalculate_tree pass changes nothing but depth and cumulative_cost of
\* the tree's nodes, a second pass changes nothing, and the pass gives the
\* same result from any depth and cost values the nodes held before.
C40_RecalculateIdempotent ==
    TreeAtHand # 0 =>
        LET once == recalculate_tree(nodes, TreeAtHand)
            inside == TreeNodes(nodes, TreeAtHand)
        IN  /\ DOMAIN once = DOMAIN nodes
            /\ \A n \in DOMAIN nodes :
                  IF n \in inside THEN OnlyDepthAndCost(nodes[n], once[n])
                  ELSE once[n] = nodes[n]
            /\ recalculate_tree(once, TreeAtHand) = once
            /\ \A d \in StaleDepths, c \in StaleCosts :
                  recalculate_tree(Stale(nodes, TreeAtHand, d, c), TreeAtHand) = once

\* build() is about to run the final pass on a tree with a grafted subtree
\* and a virtual node, and the pass will change a depth or cost in it
C40_Witness ==
    /\ pc = "gather"
    /\ \E n \in Tree : IsPrevious(n) /\ nodes[n].children # <<>>
    /\ \E n \in Tree : nodes[n].is_virtual
    /\ Cardinality(Tree) >= 5
    /\ recalculate_tree(nodes, root_node) # nodes

=============================================================================
